---- MODULE Spec2Model ----
(***************************************************************************)
(* Model of pgql's binding / execution-interception layer                  *)
(* (src/pgql/http/http.py): camel_to_snake, assign_resolvers and the       *)
(* authorized_resolver wrapper, HTTPServer.gql / on_authorize / directive /*)
(* scalar, the schema loader's scalar rewriting, the request handler and   *)
(* the session store.                                                      *)
(***************************************************************************)
EXTENDS Integers, Sequences, FiniteSets, TLC

(***************************************************************************)
(* Characters.  Names are sequences of one-character strings so that the   *)
(* regular expressions of camel_to_snake can be applied to them.           *)
(***************************************************************************)
Lowers == <<"a","b","c","d","e","f","g","h","i","j","k","l","m",
            "n","o","p","q","r","s","t","u","v","w","x","y","z">>

Uppers == <<"A","B","C","D","E","F","G","H","I","J","K","L","M",
            "N","O","P","Q","R","S","T","U","V","W","X","Y","Z">>

Digits == {"0","1","2","3","4","5","6","7","8","9"}

IsUpper(c) == \E i \in DOMAIN Uppers : Uppers[i] = c

IsLower(c) == \E i \in DOMAIN Lowers : Lowers[i] = c

IsDigit(c) == c \in Digits

\* str.lower() on one ASCII character
ToLower(c) == IF IsUpper(c) THEN Lowers[CHOOSE i \in DOMAIN Uppers : Uppers[i] = c] ELSE c

LowerAll(s) == [i \in DOMAIN s |-> ToLower(s[i])]

\* length of the greedy [a-z]* run of s that starts at position i
RECURSIVE LowerRun(_, _)
LowerRun(s, i) ==
    IF i <= Len(s) /\ IsLower(s[i]) THEN 1 + LowerRun(s, i + 1) ELSE 0

\* re.sub('(.)([A-Z][a-z]+)', r'\1_\2', s): leftmost, non-overlapping matches
RECURSIVE SubCapWord(_, _)
SubCapWord(s, i) ==
    IF i > Len(s) THEN <<>>
    ELSE IF i + 2 <= Len(s) /\ IsUpper(s[i + 1]) /\ IsLower(s[i + 2])
         THEN LET n == LowerRun(s, i + 2)
              IN  <<s[i], "_">> \o SubSeq(s, i + 1, i + 1 + n) \o SubCapWord(s, i + 2 + n)
         ELSE <<s[i]>> \o SubCapWord(s, i + 1)

\* re.sub('([a-z0-9])([A-Z])', r'\1_\2', s): leftmost, non-overlapping matches
RECURSIVE SubLowerUpper(_, _)
SubLowerUpper(s, i) ==
    IF i > Len(s) THEN <<>>
    ELSE IF i + 1 <= Len(s) /\ (IsLower(s[i]) \/ IsDigit(s[i])) /\ IsUpper(s[i + 1])
         THEN <<s[i], "_", s[i + 1]>> \o SubLowerUpper(s, i + 2)
         ELSE <<s[i]>> \o SubLowerUpper(s, i + 1)

\* a plausible slip: only the second substitution is applied
camel_to_snake_OneRegex(name) == LowerAll(SubLowerUpper(name, 1))

camel_to_snake(name) == LowerAll(SubLowerUpper(SubCapWord(name, 1), 1))

(***************************************************************************)
(* Names used by the modelled schema and resolver providers.               *)
(***************************************************************************)
N_getUser == <<"g","e","t","U","s","e","r">>

N_getCompany == <<"g","e","t","C","o","m","p","a","n","y">>

N_createUser == <<"c","r","e","a","t","e","U","s","e","r">>

N_company == <<"c","o","m","p","a","n","y">>

N_name == <<"n","a","m","e">>

N_userId == <<"u","s","e","r","I","d">>

N_page == <<"p","a","g","e">>

N_split == <<"s","p","l","i","t">>

N_login == <<"l","o","g","i","n">>

N_username == <<"u","s","e","r","n","a","m","e">>

N_password == <<"p","a","s","s","w","o","r","d">>

M_get_user == <<"g","e","t","_","u","s","e","r">>

M_get_company == <<"g","e","t","_","c","o","m","p","a","n","y">>

M_create_user == <<"c","r","e","a","t","e","_","u","s","e","r">>

(***************************************************************************)
(* Type references: GraphQLNonNull / GraphQLList wrappers around a named   *)
(* type.  inst tells scalar instances of one name apart.                   *)
(***************************************************************************)
NonNull(t) == [kind |-> "NonNull", of |-> t]

List(t) == [kind |-> "List", of |-> t]

Named(n, i) == [kind |-> "Named", name |-> n, inst |-> i]

IsWrapper(t) == t.kind \in {"NonNull", "List"}

\* the named type under the list and required modifiers
RECURSIVE Leaf(_)
Leaf(t) == IF IsWrapper(t) THEN Leaf(t.of) ELSE t

RECURSIVE get_base_type_name(_)
get_base_type_name(field_type) ==
    IF IsWrapper(field_type) THEN get_base_type_name(field_type.of) ELSE field_type.name

(***************************************************************************)
(* Ordered dictionaries (Python dict): sequences of <<key, value>> pairs.  *)
(***************************************************************************)
DictHas(d, k) == \E i \in DOMAIN d : d[i][1] = k

DictGet(d, k, default) ==
    IF DictHas(d, k) THEN d[CHOOSE i \in DOMAIN d : d[i][1] = k][2] ELSE default

\* d[k] = v: replaces the value of an existing key in place, else appends
DictSet(d, k, v) ==
    IF DictHas(d, k) THEN [i \in DOMAIN d |-> IF d[i][1] = k THEN <<k, v>> ELSE d[i]]
    ELSE Append(d, <<k, v>>)

\* {camel_to_snake(key): value for key, value in kwargs.items()}
RECURSIVE SnakeKeys(_, _, _)
SnakeKeys(kwargs, i, acc) ==
    IF i > Len(kwargs) THEN acc
    ELSE SnakeKeys(kwargs, i + 1, DictSet(acc, camel_to_snake(kwargs[i][1]), kwargs[i][2]))

(***************************************************************************)
(* The served schema: a query root, a mutation root and two nested object  *)
(* types, in type_map order.  getUser carries @paginate(page: 1, split: 5) *)
(* on its schema definition; login is the mutation of                      *)
(* tests/basic/run_with_sessions.py.                                       *)
(***************************************************************************)
query_type == "Query"

mutation_type == "Mutation"

subscription_type == "none"

type_map == <<"Query", "Mutation", "User", "Company", "String">>

ObjectTypes == {"Query", "Mutation", "User", "Company"}

PaginateSchemaArgs == <<<<N_page, 1>>, <<N_split, 5>>>>

Fields == <<
    [parent |-> "Query", name |-> N_getUser, type |-> Named("User", "t"),
     directives |-> <<[name |-> "paginate", args |-> PaginateSchemaArgs]>>],
    [parent |-> "Query", name |-> N_getCompany, type |-> List(NonNull(Named("Company", "t"))),
     directives |-> <<>>],
    [parent |-> "Mutation", name |-> N_createUser, type |-> Named("User", "t"),
     directives |-> <<>>],
    [parent |-> "Mutation", name |-> N_login, type |-> Named("User", "t"),
     directives |-> <<>>],
    [parent |-> "User", name |-> N_company, type |-> Named("Company", "t"),
     directives |-> <<>>],
    [parent |-> "Company", name |-> N_name, type |-> NonNull(Named("String", "t")),
     directives |-> <<>>] >>

FieldIds == DOMAIN Fields

F_getUser == CHOOSE f \in FieldIds : Fields[f].name = N_getUser

F_getCompany == CHOOSE f \in FieldIds : Fields[f].name = N_getCompany

F_company == CHOOSE f \in FieldIds : Fields[f].name = N_company

F_name == CHOOSE f \in FieldIds : Fields[f].name = N_name

F_login == CHOOSE f \in FieldIds : Fields[f].name = N_login

F_createUser == CHOOSE f \in FieldIds : Fields[f].name = N_createUser

(***************************************************************************)
(* Resolver registries given to gql(): type name -> provider, a provider   *)
(* being the set of its method names.                                      *)
(***************************************************************************)
NoProvider == {}

\* server.gql({}): nothing registered
RegEmpty == [t \in {} |-> NoProvider]

\* providers registered under a root type and under the destination types
\* (tests/basic/run_with_directives.py registers 'Query', tests/basic/run.py
\* registers 'User' and 'Company')
RegTypes == [t \in {"Query", "User", "Company"} |->
               IF t = "Query" THEN {M_get_user}
               ELSE IF t = "User" THEN {M_get_user, M_create_user}
               ELSE {N_company, M_get_company}]

Registries == {RegEmpty, RegTypes}

\* tests/basic/run_with_sessions.py: {'User': UserWithSession(server),
\* 'Company': Company()}
RegSessions == [t \in {"User", "Company"} |->
                  IF t = "User" THEN {M_get_user, N_login}
                  ELSE {N_company, M_get_company}]

\* camel_to_snake(field_name) of every field of the schema
MethodNames == [f \in FieldIds |-> camel_to_snake(Fields[f].name)]

(***************************************************************************)
(* Authorization predicates (on_authorize functions) and directive         *)
(* descriptors: the user-supplied callables the server is configured with. *)
(***************************************************************************)
Predicates == {"allow_all", "restricted"}

\* tests/basic/run.py on_authorize (allow_all) and
\* tests/basic/run_restricted.py on_authorize (restricted)
Authorize(fn, auth_info) ==
    IF fn = "allow_all" THEN TRUE
    ELSE IF auth_info.session_id = "none" THEN FALSE
    ELSE IF /\ auth_info.src_type = "User"
            /\ auth_info.resolver = N_company
            /\ auth_info.dst_type = "Company"
            /\ auth_info.session_id # "admin123"
         THEN FALSE
    ELSE TRUE

DirectiveNames == {"paginate"}

Descriptors == {"PaginateDirective", "FailingDirective"}

NoResult == [page |-> 0, split |-> 0, skip |-> 0, limit |-> 0]

\* a plausible slip: the pages are counted from zero
Invoke_FromZero(descriptor, args, type_name, field_name) ==
    IF descriptor = "PaginateDirective"
    THEN LET page == DictGet(args, N_page, 1)
             split == DictGet(args, N_split, 10)
         IN  [result |-> [page |-> page, split |-> split,
                          skip |-> page * split, limit |-> split],
              error |-> "none"]
    ELSE [result |-> NoResult, error |-> "directive failed"]

\* Directive.invoke(args, type_name, field_name) -> (result, error)
Invoke(descriptor, args, type_name, field_name) ==
    IF descriptor = "PaginateDirective"
    THEN LET page == DictGet(args, N_page, 1)
             split == DictGet(args, N_split, 10)
         IN  [result |-> [page |-> page, split |-> split,
                          skip |-> (page - 1) * split, limit |-> split],
              error |-> "none"]
    ELSE [result |-> NoResult, error |-> "directive failed"]

NoDirectives == [n \in {} |-> "none"]

(***************************************************************************)
(* Field bindings: the value of field.resolve.                             *)
(***************************************************************************)
NoResolve ==
    [bound |-> FALSE, provider |-> "none", method |-> <<>>, src_type |-> "none",
     dst_type |-> "none", resolver_name |-> <<>>, operation |-> "none",
     on_authorize_fn |-> "none", directives |-> "none"]

\* the closure authorized_resolver: original_resolver is provider.method;
\* directives is "registry" when the closure holds the server's registry
\* dict and "fresh" when it holds the empty dict made by `directives or {}`
\* a plausible slip: a server without predicate binds a denying default
create_authorized_resolver_DefaultDeny(provider, method, src_type, dst_type, resolver_name, operation, on_authorize_fn, directives_ref) ==
    [bound |-> TRUE, provider |-> provider, method |-> method, src_type |-> src_type,
     dst_type |-> dst_type, resolver_name |-> resolver_name, operation |-> operation,
     on_authorize_fn |-> IF on_authorize_fn = "none" THEN "restricted" ELSE on_authorize_fn,
     directives |-> directives_ref]

create_authorized_resolver(provider, method, src_type, dst_type, resolver_name, operation, on_authorize_fn, directives_ref) ==
    [bound |-> TRUE, provider |-> provider, method |-> method, src_type |-> src_type,
     dst_type |-> dst_type, resolver_name |-> resolver_name, operation |-> operation,
     on_authorize_fn |-> on_authorize_fn, directives |-> directives_ref]

HasMethod(classes, type_name, method_name) ==
    type_name \in DOMAIN classes /\ method_name \in classes[type_name]

\* a plausible slip: the destination type's provider is tried first
assign_type_resolvers_DstFirst(resolve, graphql_type, operation, classes, on_authorize_fn, directives_ref) ==
    [f \in DOMAIN resolve |->
        IF Fields[f].parent # graphql_type THEN resolve[f]
        ELSE LET return_type_name == get_base_type_name(Fields[f].type)
                 method_name == MethodNames[f]
             IN  IF HasMethod(classes, return_type_name, method_name)
                 THEN create_authorized_resolver(return_type_name, method_name,
                          graphql_type, return_type_name, Fields[f].name, operation,
                          on_authorize_fn, directives_ref)
                 ELSE IF HasMethod(classes, graphql_type, method_name)
                 THEN create_authorized_resolver(graphql_type, method_name,
                          graphql_type, return_type_name, Fields[f].name, operation,
                          on_authorize_fn, directives_ref)
                 ELSE resolve[f]]

assign_type_resolvers(resolve, graphql_type, operation, classes, on_authorize_fn, directives_ref) ==
    [f \in DOMAIN resolve |->
        IF Fields[f].parent # graphql_type THEN resolve[f]
        ELSE LET return_type_name == get_base_type_name(Fields[f].type)
                 method_name == MethodNames[f]
             IN  IF HasMethod(classes, graphql_type, method_name)
                 THEN create_authorized_resolver(graphql_type, method_name,
                          graphql_type, return_type_name, Fields[f].name, operation,
                          on_authorize_fn, directives_ref)
                 ELSE IF HasMethod(classes, return_type_name, method_name)
                 THEN create_authorized_resolver(return_type_name, method_name,
                          graphql_type, return_type_name, Fields[f].name, operation,
                          on_authorize_fn, directives_ref)
                 ELSE resolve[f]]

RootTypes == {query_type, mutation_type, subscription_type}

\* a plausible slip: the loop over type_map does not skip the root types
RECURSIVE assign_nested_NoSkip(_, _, _, _, _)
assign_nested_NoSkip(resolve, i, classes, on_authorize_fn, directives_ref) ==
    IF i > Len(type_map) THEN resolve
    ELSE IF type_map[i] \in ObjectTypes
         THEN assign_nested_NoSkip(
                  assign_type_resolvers(resolve, type_map[i], "query", classes,
                                        on_authorize_fn, directives_ref),
                  i + 1, classes, on_authorize_fn, directives_ref)
         ELSE assign_nested_NoSkip(resolve, i + 1, classes, on_authorize_fn, directives_ref)

\* the loop over schema.type_map.items() that binds the nested object types
RECURSIVE assign_nested(_, _, _, _, _)
assign_nested(resolve, i, classes, on_authorize_fn, directives_ref) ==
    IF i > Len(type_map) THEN resolve
    ELSE IF type_map[i] \in ObjectTypes /\ type_map[i] \notin RootTypes
         THEN assign_nested(
                  assign_type_resolvers(resolve, type_map[i], "query", classes,
                                        on_authorize_fn, directives_ref),
                  i + 1, classes, on_authorize_fn, directives_ref)
         ELSE assign_nested(resolve, i + 1, classes, on_authorize_fn, directives_ref)

\* directives_arg is "none" when the caller passes no directives and the
\* server's registry dict otherwise; registry is that dict's current value
assign_resolvers(resolve, classes, on_authorize_fn, directives_arg, registry) ==
    LET directives_ref ==
            IF directives_arg = "registry" /\ DOMAIN registry # {}
            THEN "registry" ELSE "fresh"
        r1 == IF query_type # "none"
              THEN assign_type_resolvers(resolve, query_type, "query", classes,
                                         on_authorize_fn, directives_ref)
              ELSE resolve
        r2 == IF mutation_type # "none"
              THEN assign_type_resolvers(r1, mutation_type, "mutation", classes,
                                         on_authorize_fn, directives_ref)
              ELSE r1
        r3 == IF subscription_type # "none"
              THEN assign_type_resolvers(r2, subscription_type, "subscription", classes,
                                         on_authorize_fn, directives_ref)
              ELSE r2
    IN  assign_nested(r3, 1, classes, on_authorize_fn, directives_ref)

\* the calls assign_type_resolvers(graphql_type, operation) one run of
\* assign_resolvers makes, in order: the root types the schema has, then the
\* other object types in type_map order
root_calls ==
    (IF query_type # "none"
     THEN <<[type |-> query_type, operation |-> "query"]>> ELSE <<>>)
    \o (IF mutation_type # "none"
        THEN <<[type |-> mutation_type, operation |-> "mutation"]>> ELSE <<>>)
    \o (IF subscription_type # "none"
        THEN <<[type |-> subscription_type, operation |-> "subscription"]>> ELSE <<>>)

RECURSIVE nested_calls(_)
nested_calls(i) ==
    IF i > Len(type_map) THEN <<>>
    ELSE IF type_map[i] \in ObjectTypes /\ type_map[i] \notin RootTypes
         THEN <<[type |-> type_map[i], operation |-> "query"]>> \o nested_calls(i + 1)
         ELSE nested_calls(i + 1)

bind_calls == root_calls \o nested_calls(1)

\* the run as the sequence of its calls: the binding after the first n calls
RECURSIVE bind_run(_, _, _, _, _)
bind_run(resolve, n, classes, on_authorize_fn, directives_ref) ==
    IF n = 0 THEN resolve
    ELSE assign_type_resolvers(
             bind_run(resolve, n - 1, classes, on_authorize_fn, directives_ref),
             bind_calls[n].type, bind_calls[n].operation, classes,
             on_authorize_fn, directives_ref)

(***************************************************************************)
(* authorized_resolver: the wrapper installed as field.resolve.            *)
(***************************************************************************)
NoError == [kind |-> "none", text |-> "", type |-> "none", field |-> <<>>]

NoInfo ==
    [operation |-> "none", resolver |-> <<>>, args |-> <<>>, type_name |-> "none",
     directives |-> <<>>, parent_type_name |-> "none", session_id |-> "none",
     field_name |-> <<>>]

NoAuthInfo ==
    [operation |-> "none", src_type |-> "none", dst_type |-> "none",
     resolver |-> <<>>, session_id |-> "none"]

\* PermissionError(f"No autorizado para ejecutar {dst_type}.{resolver_name}")
denial_error_NoType(dst_type, resolver_name) ==
    [kind |-> "PermissionError", text |-> "No autorizado para ejecutar",
     type |-> "none", field |-> resolver_name]

denial_error(dst_type, resolver_name) ==
    [kind |-> "PermissionError", text |-> "No autorizado para ejecutar",
     type |-> dst_type, field |-> resolver_name]

\* the loop over field_def.ast_node.directives; acc collects directive_results,
\* the invocations made so far (name, instance, arguments passed) and the
\* error of the directive that failed
\* a plausible slip: a directive's error is dropped and the loop goes on
RECURSIVE process_directives_IgnoreError(_, _, _, _, _, _)
process_directives_IgnoreError(nodes, i, directives, kwargs, b, acc) ==
    IF i > Len(nodes) THEN acc
    ELSE LET directive_name == nodes[i].name
         IN  IF directive_name \in DOMAIN directives
             THEN LET r == Invoke(directives[directive_name], kwargs,
                                  b.dst_type, b.resolver_name)
                  IN  process_directives_IgnoreError(nodes, i + 1, directives, kwargs, b,
                          [acc EXCEPT !.invoked = Append(@, [name |-> directive_name,
                                          directive_instance |-> directives[directive_name],
                                          directive_args |-> kwargs]),
                                      !.results = DictSet(@, directive_name, r.result)])
             ELSE process_directives_IgnoreError(nodes, i + 1, directives, kwargs, b, acc)

RECURSIVE process_directives(_, _, _, _, _, _)
process_directives(nodes, i, directives, kwargs, b, acc) ==
    IF i > Len(nodes) THEN acc
    ELSE LET directive_name == nodes[i].name
         IN  IF directive_name \in DOMAIN directives
             THEN LET r == Invoke(directives[directive_name], kwargs,
                                  b.dst_type, b.resolver_name)
                  IN  IF r.error # "none"
                      THEN [acc EXCEPT !.invoked = Append(@, [name |-> directive_name,
                                          directive_instance |-> directives[directive_name],
                                          directive_args |-> kwargs]),
                                       !.error = r.error]
                      ELSE process_directives(nodes, i + 1, directives, kwargs, b,
                               [acc EXCEPT !.invoked = Append(@, [name |-> directive_name,
                                          directive_instance |-> directives[directive_name],
                                          directive_args |-> kwargs]),
                                           !.results = DictSet(@, directive_name, r.result)])
             ELSE process_directives(nodes, i + 1, directives, kwargs, b, acc)

\* a plausible slip: one map is kept by the wrapper and filled call after call
directive_results_Kept(earlier) == earlier

\* directive_results = {}: every call starts from an empty map of its own,
\* whatever the maps of earlier calls hold
directive_results(earlier) == <<>>

\* the call authorized_resolver(parent, info, **kwargs) of binding b for field f
\* (info.parent_type.fields[info.field_name] is Fields[f]); registry is the
\* current value of the server's directive registry.  The result records what
\* the call did: log is the sequence of callables it invoked.
authorized_resolver(b, f, kwargs, context, registry, earlier) ==
    LET snake_kwargs == SnakeKeys(kwargs, 1, <<>>)
        session_id == context.session_id
        directives == IF b.directives = "registry" THEN registry ELSE NoDirectives
        d == process_directives(Fields[f].directives, 1, directives, kwargs, b,
                 [results |-> directive_results(earlier), invoked |-> <<>>,
                  error |-> "none"])
        dlog == [i \in DOMAIN d.invoked |-> "directive"]
        resolver_info ==
            [operation |-> b.operation, resolver |-> b.resolver_name,
             args |-> snake_kwargs, type_name |-> b.dst_type,
             directives |-> d.results, parent_type_name |-> b.src_type,
             session_id |-> session_id, field_name |-> b.resolver_name]
        auth_info ==
            [operation |-> b.operation, src_type |-> b.src_type,
             dst_type |-> b.dst_type, resolver |-> b.resolver_name,
             session_id |-> session_id]
        base == [field |-> f, bound |-> TRUE, method |-> <<b.provider, b.method>>,
                 on_authorize_fn |-> b.on_authorize_fn, directives |-> b.directives,
                 invoked |-> d.invoked,
                 auth_info |-> IF d.error = "none" /\ b.on_authorize_fn # "none"
                               THEN auth_info ELSE NoAuthInfo]
    IN  IF d.error # "none"
        THEN base @@ [log |-> dlog, outcome |-> "error", info |-> NoInfo,
                      error |-> [kind |-> "Exception", text |-> d.error,
                                 type |-> "none", field |-> <<>>]]
        ELSE IF b.on_authorize_fn # "none" /\ ~Authorize(b.on_authorize_fn, auth_info)
        THEN base @@ [log |-> Append(dlog, "authorize"), outcome |-> "error",
                      info |-> NoInfo,
                      error |-> denial_error(b.dst_type, b.resolver_name)]
        ELSE base @@ [log |-> (IF b.on_authorize_fn # "none"
                               THEN Append(dlog, "authorize") ELSE dlog)
                              \o <<"resolver">>,
                      outcome |-> "ok", info |-> resolver_info, error |-> NoError]

\* a field left on the engine's default resolution: nothing of this layer runs
default_resolver(f) ==
    [field |-> f, bound |-> FALSE, method |-> <<"none", <<>>>>,
     on_authorize_fn |-> "none", directives |-> "none", invoked |-> <<>>,
     auth_info |-> NoAuthInfo, log |-> <<>>, outcome |-> "ok", info |-> NoInfo, error |-> NoError]

\* a selection the engine does not execute because its parent field failed
skipped_field(f) ==
    [field |-> f, bound |-> FALSE, method |-> <<"none", <<>>>>,
     on_authorize_fn |-> "none", directives |-> "none", invoked |-> <<>>,
     auth_info |-> NoAuthInfo, log |-> <<>>, outcome |-> "skipped", info |-> NoInfo, error |-> NoError]

(***************************************************************************)
(* One call of authorized_resolver taken statement by statement: the loop  *)
(* over the annotations of the field's schema definition, one annotation   *)
(* per step, then the predicate, then the resolver.                        *)
(***************************************************************************)
MaxNodes == 3

\* the directive names of the repository's examples
AnnotationNames == {"paginate", "uppercase", "log"}

\* field_def.ast_node.directives: the annotations in declaration order; a
\* directive that is not repeatable annotates a field once
AnnotationLists ==
    {l \in UNION {[1..n -> AnnotationNames] : n \in 0..MaxNodes} :
        \A i, j \in DOMAIN l : i # j => l[i] # l[j]}

\* the values HTTPServer.__directives can hold
DirectiveRegistries == UNION {[K -> Descriptors] : K \in SUBSET AnnotationNames}

N_user_id == <<"u","s","e","r","_","i","d">>

\* the arguments the engine passes as **kwargs, under their schema names
KwargMaps ==
    { <<>>,
      <<<<N_userId, 7>>>>,
      <<<<N_page, 3>>, <<N_split, 2>>>>,
      <<<<N_userId, 7>>, <<N_user_id, 8>>>> }

\* what a directive does to the top-level keys of the map it is given
ArgEdits == {"keep", "clear", "set"}

edit_args(edit, directive_args) ==
    IF edit = "clear" THEN <<>>
    ELSE IF edit = "set" THEN DictSet(directive_args, N_userId, 0)
    ELSE directive_args

\* a plausible slip: a name without descriptor gets a default descriptor
descriptor_of_Default(directives, directive_name) ==
    IF directive_name \in DOMAIN directives THEN directives[directive_name]
    ELSE "PaginateDirective"

\* `if directive_name in directives: ... directives[directive_name]`
descriptor_of(directives, directive_name) ==
    IF directive_name \in DOMAIN directives THEN directives[directive_name]
    ELSE "none"

\* the closure of the wrapper for Query.getUser: User
WrapperBinding(on_authorize_fn) ==
    create_authorized_resolver("User", M_get_user, "Query", "User", N_getUser,
                               "query", on_authorize_fn, "registry")

IdleCall ==
    [pc |-> "idle", nodes |-> <<>>, directives |-> NoDirectives, kwargs |-> <<>>,
     on_authorize_fn |-> "none", session_id |-> "none", snake_kwargs |-> <<>>,
     i |-> 1, invoked |-> <<>>, directive_results |-> <<>>, error |-> "none",
     left |-> <<>>, log |-> <<>>, info |-> NoInfo, resolver_kwargs |-> <<>>]

\* a plausible slip: the error of a directive is kept but the loop goes on
directive_node_GoOn(c, edit) ==
    LET directive_name == c.nodes[c.i]
        directive_instance == descriptor_of(c.directives, directive_name)
        directive_args == c.kwargs
        b == WrapperBinding(c.on_authorize_fn)
        r == Invoke(directive_instance, directive_args, b.dst_type, b.resolver_name)
        invocation == [name |-> directive_name, at |-> c.i,
                       directive_instance |-> directive_instance,
                       directive_args |-> directive_args,
                       error |-> r.error]
    IN  IF directive_instance = "none" THEN [c EXCEPT !.i = @ + 1]
        ELSE IF r.error # "none"
        THEN [c EXCEPT !.invoked = Append(@, invocation),
                       !.left = edit_args(edit, directive_args),
                       !.log = Append(@, "directive"),
                       !.error = r.error, !.i = @ + 1]
        ELSE [c EXCEPT !.invoked = Append(@, invocation),
                       !.left = edit_args(edit, directive_args),
                       !.log = Append(@, "directive"),
                       !.directive_results = DictSet(@, directive_name, r.result),
                       !.i = @ + 1]

\* one iteration of `for directive_node in field_def.ast_node.directives`:
\* the directive gets a copy of kwargs, which it may edit (left is that copy
\* as the directive left it); its error is raised out of the wrapper, its
\* result is entered under the directive's name
directive_node(c, edit) ==
    LET directive_name == c.nodes[c.i]
        directive_instance == descriptor_of(c.directives, directive_name)
        directive_args == c.kwargs
        b == WrapperBinding(c.on_authorize_fn)
        r == Invoke(directive_instance, directive_args, b.dst_type, b.resolver_name)
        invocation == [name |-> directive_name, at |-> c.i,
                       directive_instance |-> directive_instance,
                       directive_args |-> directive_args,
                       error |-> r.error]
    IN  IF directive_instance = "none" THEN [c EXCEPT !.i = @ + 1]
        ELSE IF r.error # "none"
        THEN [c EXCEPT !.invoked = Append(@, invocation),
                       !.left = edit_args(edit, directive_args),
                       !.log = Append(@, "directive"),
                       !.error = r.error, !.pc = "raised"]
        ELSE [c EXCEPT !.invoked = Append(@, invocation),
                       !.left = edit_args(edit, directive_args),
                       !.log = Append(@, "directive"),
                       !.directive_results = DictSet(@, directive_name, r.result),
                       !.i = @ + 1]

\* the statements after the loop up to the predicate's answer: ResolverInfo,
\* AuthorizeInfo, on_authorize_fn(auth_info)
authorize_call(c) ==
    LET b == WrapperBinding(c.on_authorize_fn)
        resolver_info ==
            [operation |-> b.operation, resolver |-> b.resolver_name,
             args |-> c.snake_kwargs, type_name |-> b.dst_type,
             directives |-> c.directive_results, parent_type_name |-> b.src_type,
             session_id |-> c.session_id, field_name |-> b.resolver_name]
        auth_info ==
            [operation |-> b.operation, src_type |-> b.src_type,
             dst_type |-> b.dst_type, resolver |-> b.resolver_name,
             session_id |-> c.session_id]
    IN  IF c.on_authorize_fn = "none"
        THEN [c EXCEPT !.info = resolver_info, !.pc = "resolver"]
        ELSE IF Authorize(c.on_authorize_fn, auth_info)
        THEN [c EXCEPT !.info = resolver_info, !.log = Append(@, "authorize"),
                       !.pc = "resolver"]
        ELSE [c EXCEPT !.info = resolver_info, !.log = Append(@, "authorize"),
                       !.error = "PermissionError", !.pc = "raised"]

(***************************************************************************)
(* Requests.  A query is the sequence of its field selections in execution *)
(* order; under is the index of the selection's parent selection (0 for a  *)
(* root field).                                                            *)
(***************************************************************************)
PaginateQueryArgs == <<<<N_page, 3>>, <<N_split, 2>>>>

\* { getUser(userId: 7) { company } }
QueryUserCompany ==
    << [field |-> F_getUser, kwargs |-> <<<<N_userId, 7>>>>, directives |-> <<>>,
        under |-> 0],
       [field |-> F_company, kwargs |-> <<>>, directives |-> <<>>, under |-> 1] >>

\* { getUser @paginate(page: 3, split: 2)  getCompany { name } }
QueryPaginated ==
    << [field |-> F_getUser, kwargs |-> <<>>,
        directives |-> <<[name |-> "paginate", args |-> PaginateQueryArgs]>>,
        under |-> 0],
       [field |-> F_getCompany, kwargs |-> <<>>, directives |-> <<>>, under |-> 0],
       [field |-> F_name, kwargs |-> <<>>, directives |-> <<>>, under |-> 2] >>

\* { getCompany @paginate(page: 2, split: 3) { name } }
QueryDynamic ==
    << [field |-> F_getCompany, kwargs |-> <<>>,
        directives |-> <<[name |-> "paginate",
                          args |-> <<<<N_page, 2>>, <<N_split, 3>>>>]>>,
        under |-> 0],
       [field |-> F_name, kwargs |-> <<>>, directives |-> <<>>, under |-> 1] >>

Queries == <<QueryUserCompany, QueryPaginated, QueryDynamic>>

\* mutation { login(username: "admin", password: "secret") }
QueryLogin ==
    << [field |-> F_login,
        kwargs |-> <<<<N_username, "admin">>, <<N_password, "secret">>>>,
        directives |-> <<>>, under |-> 0] >>

\* mutation { login(username: "admin", password: "guess") }
QueryLoginRefused ==
    << [field |-> F_login,
        kwargs |-> <<<<N_username, "admin">>, <<N_password, "guess">>>>,
        directives |-> <<>>, under |-> 0] >>

\* mutation { login(username: "admin", password: "secret")  createUser }
QueryLoginThenUser ==
    << [field |-> F_login,
        kwargs |-> <<<<N_username, "admin">>, <<N_password, "secret">>>>,
        directives |-> <<>>, under |-> 0],
       [field |-> F_createUser, kwargs |-> <<>>, directives |-> <<>>, under |-> 0] >>

SessionQueries == <<QueryLogin, QueryLoginRefused, QueryLoginThenUser>>

\* every document a request can carry; a request's query is an index here
AllQueries == Queries \o SessionQueries

Cookies == {"none", "guest"}

(***************************************************************************)
(* State of the server (HTTPServer) and of the requests in flight.         *)
(***************************************************************************)
VARIABLES
    self_on_authorize,  \* HTTPServer.__on_authorize: "none" or a predicate
    self_resolvers,     \* HTTPServer.__resolvers
    self_directives,    \* HTTPServer.__directives: name -> descriptor
    self_schemas,       \* HTTPServer.__schemas[endpoint]: a schema object
    heap,               \* schema objects: id -> field -> field.resolve
    req,                \* the request handlers in flight
    bound_with,         \* history: the registry each schema object was bound with last
    session_store,      \* HTTPServer.__session_store: session id -> Session
    now,                \* the clock, in seconds
    issued,             \* history: every session ever created, as created
    deleted,            \* history: the ids delete_session was called with
    last_op,            \* history: the last session operation and its result
    written,            \* history: the last Session.set per session and key (value, handle)
    self_scalars,       \* HTTPServer.__scalars: scalar name -> Scalar instance
    source,             \* the schema text of the route: the declared type references
    loaded,             \* the schema object __load_schema returned last
    snake_in,           \* the field name handed to camel_to_snake
    snake_out,          \* the method name it returned, once it has returned
    store_lock,         \* the session store's lock: 0 or the caller inside
    in_call,            \* the session store call each concurrent caller is in
    codec_req,          \* the request whose argument and result pass through a codec
    loop_task,          \* the request whose resolver call holds the event loop, or 0
    fragments,          \* the schema directory, and what the last load made of it
    err_in,             \* the constructor call of an error: constructor and arguments
    err_out,            \* the error object it returned, once it has returned
    wcall               \* one call of authorized_resolver, statement by statement

server_vars == <<self_on_authorize, self_resolvers, self_directives, self_schemas,
                 heap, req, bound_with>>

session_vars == <<session_store, now, issued, deleted, last_op, written>>

scalar_vars == <<self_scalars, source, loaded>>

snake_vars == <<snake_in, snake_out>>

lock_vars == <<store_lock, in_call>>

codec_vars == <<codec_req>>

loop_vars == <<loop_task>>

build_vars == <<fragments>>

error_vars == <<err_in, err_out>>

wrapper_vars == <<wcall>>

vars == <<server_vars, session_vars, scalar_vars, snake_vars, lock_vars, codec_vars, loop_vars, build_vars, error_vars, wrapper_vars>>

\* what the server's operations leave alone
ServerFrame == UNCHANGED <<session_vars, scalar_vars, snake_vars, lock_vars, codec_vars, loop_vars, build_vars, error_vars, wrapper_vars>>

\* what the session operations leave alone
SessionFrame == UNCHANGED <<server_vars, scalar_vars, snake_vars, lock_vars, codec_vars, loop_vars, build_vars, error_vars, wrapper_vars>>

\* what the scalar registration and the schema loader leave alone
ScalarFrame == UNCHANGED <<server_vars, session_vars, snake_vars, lock_vars, codec_vars, loop_vars, build_vars, error_vars, wrapper_vars>>

\* what a name translation leaves alone
SnakeFrame == UNCHANGED <<server_vars, session_vars, scalar_vars, lock_vars, codec_vars, loop_vars, build_vars, error_vars, wrapper_vars>>

(***************************************************************************)
(* Custom scalars: HTTPServer.scalar and the rewriting of scalar           *)
(* references by __load_schema.  The schema text declares scalar Date and  *)
(* uses it in three places: the type of an object field, the type of a     *)
(* field argument and the type of an input-object field.                   *)
(***************************************************************************)
MaxWrap == 2

ScalarNames == {"Date", "Money"}

Codecs == {"DateScalar", "URLScalar"}

\* the scalar types build_schema puts in schema.type_map for this text
DeclaredScalars == {"Date", "String"}

Wrap1(S) == S \cup {NonNull(t) : t \in {x \in S : x.kind # "NonNull"}}
              \cup {List(t) : t \in S}

RECURSIVE Wraps(_, _)
Wraps(S, n) == IF n = 0 THEN S ELSE Wraps(Wrap1(S), n - 1)

\* the type references a schema text can declare: a declared scalar under at
\* most MaxWrap list / required modifiers
TypeRefs == Wraps({Named(n, "parsed") : n \in DeclaredScalars}, MaxWrap)

\* object_field: the type of a field of an object type; argument: the type of
\* an argument of such a field; input_field: the type of an input-object field
Sources == [object_field : TypeRefs, argument : TypeRefs, input_field : TypeRefs]

DefaultSource ==
    [object_field |-> Named("Date", "parsed"),
     argument |-> Named("Date", "parsed"),
     input_field |-> NonNull(Named("Date", "parsed"))]

\* a plausible slip: the wrappers are dropped, the leaf is returned
RECURSIVE replace_scalar_in_type_Unwrap(_, _, _)
replace_scalar_in_type_Unwrap(field_type, scalar_name, new_scalar_type) ==
    IF IsWrapper(field_type)
    THEN replace_scalar_in_type_Unwrap(field_type.of, scalar_name, new_scalar_type)
    ELSE IF field_type.name = scalar_name THEN new_scalar_type
    ELSE field_type

\* HTTPServer._replace_scalar_in_type
RECURSIVE replace_scalar_in_type(_, _, _)
replace_scalar_in_type(field_type, scalar_name, new_scalar_type) ==
    IF field_type.kind = "NonNull"
    THEN NonNull(replace_scalar_in_type(field_type.of, scalar_name, new_scalar_type))
    ELSE IF field_type.kind = "List"
    THEN List(replace_scalar_in_type(field_type.of, scalar_name, new_scalar_type))
    ELSE IF field_type.name = scalar_name THEN new_scalar_type
    ELSE field_type

\* build_schema(full_schema): every reference points at the parsed scalar type
build_schema(text) ==
    [type_map |-> [n \in DeclaredScalars |-> Named(n, "parsed")],
     object_field |-> text.object_field,
     argument |-> text.argument,
     input_field |-> text.input_field]

\* the body of the loop over self.__scalars.items() for one registered scalar:
\* object-type fields and their arguments are rewritten
register_scalar(schema, scalar_name, scalar_instance) ==
    IF scalar_name \in DOMAIN schema.type_map
    THEN LET new_scalar_type == Named(scalar_name, scalar_instance)
         IN  [schema EXCEPT
                 !.type_map[scalar_name] = new_scalar_type,
                 !.object_field = replace_scalar_in_type(@, scalar_name, new_scalar_type),
                 !.argument = replace_scalar_in_type(@, scalar_name, new_scalar_type)]
    ELSE schema

RECURSIVE register_scalars(_, _, _)
register_scalars(schema, scalars, names) ==
    IF names = {} THEN schema
    ELSE LET n == CHOOSE x \in names : TRUE
         IN  register_scalars(register_scalar(schema, n, scalars[n]), scalars,
                              names \ {n})

\* HTTPServer.__load_schema
load_schema(text, scalars) ==
    register_scalars(build_schema(text), scalars, DOMAIN scalars)

NoScalars == [n \in {} |-> "none"]

(***************************************************************************)
(* Codecs at work.  The schema of run_with_scalars.py has the query        *)
(* events(after: Date) and the field Event.date: Date.  A value is one of  *)
(* a few kinds: null, a date "2025-11-19", a URL, another text, an         *)
(* integer, a datetime object.                                             *)
(***************************************************************************)
\* the codecs of the tests, and Scalar: any implementation of the abstract
\* class, whose set and assess may return an error for any value but null
CodecImpls == Codecs \cup {"Scalar"}

InputValues == {"null", "date", "url", "text", "int"}

ReturnValues == {"null", "datetime", "text"}

Vias == {"literal", "variable"}

Returned(value) == [result |-> value, error |-> "none"]

Failed(error) == [result |-> "null", error |-> error]

\* scalar_obj.assess(resolved): the (result, error) pairs it can return
Scalar_assess(scalar_obj, value) ==
    IF value = "null" THEN {Returned("null")}
    ELSE IF scalar_obj = "DateScalar"
    THEN IF value = "date" THEN {Returned("datetime")}
         ELSE IF value = "int" THEN {Failed("Fatal")}
         ELSE {Failed("Warning")}
    ELSE IF scalar_obj = "URLScalar"
    THEN IF value = "url" THEN {Returned("url")} ELSE {Failed("Warning")}
    ELSE {Returned(value), Failed("Exception")}

\* scalar_obj.set(value): the (result, error) pairs it can return
Scalar_set(scalar_obj, value) ==
    IF value = "null" THEN {Returned("null")}
    ELSE IF scalar_obj = "DateScalar"
    THEN IF value = "datetime" THEN {Returned("date")} ELSE {Returned("text")}
    ELSE IF scalar_obj = "URLScalar" THEN {Returned("text")}
    ELSE {Returned("text"), Failed("Exception")}

\* raise error: Warning and Fatal derive from GQLError, which is no
\* exception class, so raising one of them raises a TypeError instead
raise(error) == IF error \in {"Warning", "Fatal"} THEN "TypeError" ELSE error

\* a plausible slip: the error of the codec is dropped and the result returned
result_or_raise_Swallow(pair) ==
    [raised |-> "none", value |-> pair.result]

\* result, error = ...; if error: raise error; return result
result_or_raise(pair) ==
    IF pair.error # "none"
    THEN [raised |-> raise(pair.error), value |-> "null"]
    ELSE [raised |-> "none", value |-> pair.result]

\* getattr(ast, 'value', None): the text of a string or integer literal
ast_value(ast) == IF ast = "int" THEN "text" ELSE ast

\* make_parse_literal(scalar_obj)(ast): the outcomes, each with the codec's pair
parse_literal(scalar_obj, ast) ==
    {[pair |-> pair, out |-> result_or_raise(pair)] :
        pair \in Scalar_assess(scalar_obj, ast_value(ast))}

\* make_parse_value(scalar_obj)(value)
parse_value(scalar_obj, value) ==
    {[pair |-> pair, out |-> result_or_raise(pair)] :
        pair \in Scalar_assess(scalar_obj, value)}

\* make_serialize(scalar_obj)(value)
serialize(scalar_obj, value) ==
    {[pair |-> pair, out |-> result_or_raise(pair)] :
        pair \in Scalar_set(scalar_obj, value)}

\* a scalar type of the schema text no codec replaced: values pass unchanged
identity(value) == {[pair |-> Returned(value), out |-> [raised |-> "none", value |-> value]]}

\* the decoding of an argument of type t sent as a literal or as a variable
coerce_argument(t, via, value) ==
    IF Leaf(t).inst = "parsed" THEN identity(value)
    ELSE IF via = "literal" THEN parse_literal(Leaf(t).inst, value)
    ELSE parse_value(Leaf(t).inst, value)

\* the encoding of the value a resolver returned for a field of type t
complete_value(t, value) ==
    IF Leaf(t).inst = "parsed" THEN identity(value)
    ELSE serialize(Leaf(t).inst, value)

\* json.dumps of the response body fails on a datetime object
JsonSerializable(value) == value # "datetime"

ErrorEntry(origin, text) == [origin |-> origin, text |-> text]

IdleCodecReq ==
    [pc |-> "idle", via |-> "none", value |-> "none", arg |-> "none",
     returned |-> "none", output |-> "none", codec_error |-> "none",
     errors |-> <<>>, data |-> "none", status |-> 0, called |-> FALSE,
     after_failure |-> FALSE]

(***************************************************************************)
(* The session store.  SessionStore and Session (pgql/http/session.py) are *)
(* described by the design document: create allocates a fresh id and       *)
(* stores creation time, max age and an empty map; get returns the session *)
(* if present and now <= created_at + max_age; delete removes.             *)
(***************************************************************************)
MaxSessions == 2

MaxTime == 3

MaxAge == 2

SessionIds == 1..MaxSessions

MaxAges == 1..MaxAge

\* the keys and values the callers of Session.set use
SessionKeys == {"user_id"}

SessionValues == {1, 2}

Absent == [found |-> FALSE,
           session |-> [session_id |-> 0, created_at |-> 0, max_age |-> 0, data |-> <<>>]]

\* SessionStore.create(max_age) at time t under the fresh id session_id
SessionStore_create(store, session_id, max_age, t) ==
    [i \in DOMAIN store \cup {session_id} |->
        IF i = session_id
        THEN [session_id |-> session_id, created_at |-> t, max_age |-> max_age,
              data |-> <<>>]
        ELSE store[i]]

\* SessionStore.get(session_id) at time t
SessionStore_get(store, session_id, t) ==
    IF /\ session_id \in DOMAIN store
       /\ t <= store[session_id].created_at + store[session_id].max_age
    THEN [found |-> TRUE, session |-> store[session_id]]
    ELSE Absent

\* SessionStore.delete(session_id)
SessionStore_delete(store, session_id) ==
    [i \in DOMAIN store \ {session_id} |-> store[i]]

\* a plausible slip: the store's dict is read directly, without the expiry check
get_session_Raw(store, session_id, t) ==
    IF session_id \in DOMAIN store
    THEN [found |-> TRUE, session |-> store[session_id]]
    ELSE Absent

\* a plausible slip: a new Session object is built for the id instead of
\* returning the stored one
get_session_Fresh(store, session_id, t) ==
    IF SessionStore_get(store, session_id, t).found
    THEN [found |-> TRUE, session |-> [store[session_id] EXCEPT !.data = <<>>]]
    ELSE Absent

\* HTTPServer.get_session(session_id)
get_session(store, session_id, t) == SessionStore_get(store, session_id, t)

\* a plausible slip: the call to the store is missing
delete_session_Noop(store, session_id) == store

\* HTTPServer.delete_session(session_id)
delete_session(store, session_id) == SessionStore_delete(store, session_id)

\* a plausible slip: the sign of max_age is lost on the way to the store
create_session_Negated(store, session_id, max_age, t) ==
    SessionStore_create(store, session_id, 0 - max_age, t)

\* HTTPServer.create_session(max_age)
create_session(store, session_id, max_age, t) ==
    SessionStore_create(store, session_id, max_age, t)

\* a plausible slip: a write extends the session's life
Session_set_Extend(session, key, value) ==
    [session EXCEPT !.data = DictSet(@, key, value), !.max_age = @ + 1]

\* Session.set(key, value): the last write of a key wins
Session_set(session, key, value) ==
    [session EXCEPT !.data = DictSet(@, key, value)]

\* Session.get(key): the value of the key, None (0) if it was never set
Session_get(session, key) == DictGet(session.data, key, 0)

(***************************************************************************)
(* The response of gql_handler: the session cookie.                        *)
(***************************************************************************)
\* context['new_session'] as gql_handler creates it
None == Absent.session

NoCookie == [key |-> "none", value |-> 0, max_age |-> 0, httponly |-> FALSE,
             secure |-> FALSE, samesite |-> "none"]

\* json_response.set_cookie(key=cookie_name, value=..., max_age=..., ...)
set_cookie(cookie_name, new_session) ==
    [key |-> cookie_name, value |-> new_session.session_id,
     max_age |-> new_session.max_age, httponly |-> TRUE, secure |-> FALSE,
     samesite |-> "lax"]

\* a plausible slip: the cookie is also (re)sent to a client that came with one
response_cookie_Refresh(context, cookie_name) ==
    IF context.new_session # None \/ context.session_id # "none"
    THEN set_cookie(cookie_name, context.new_session)
    ELSE NoCookie

\* `if context.get('new_session'):` ... set_cookie; a Session object is true
response_cookie(context, cookie_name) ==
    IF context.new_session # None
    THEN set_cookie(cookie_name, context.new_session)
    ELSE NoCookie

\* the cookie a client sends back for the session id it was given
CookieOf(session_id) == ToString(session_id)

\* the cookies of requests to a server with sessions: none, one that names no
\* session, and those of the session ids
SessionCookies == {"none", "guest"} \cup {CookieOf(i) : i \in SessionIds}

\* the session id a cookie value names, 0 when it names none
IdOf(cookie) ==
    IF \E i \in SessionIds : CookieOf(i) = cookie
    THEN CHOOSE i \in SessionIds : CookieOf(i) = cookie
    ELSE 0

\* session_id = request.cookies.get(cookie_name); session = None;
\* if session_store and session_id: session = session_store.get(session_id)
context_session(store, cookie, t) ==
    IF cookie # "none" THEN get_session(store, IdOf(cookie), t) ELSE Absent

\* UserWithSession.login: the credentials it accepts
login_accepts(args) ==
    /\ DictGet(args, N_username, "none") = "admin"
    /\ DictGet(args, N_password, "none") = "secret"

\* the field call ran UserWithSession.login to the creation of a session
CreatesSession(call) ==
    /\ call.bound
    /\ call.outcome = "ok"
    /\ call.method = <<"User", N_login>>
    /\ login_accepts(call.info.args)

(***************************************************************************)
(* The response envelope of gql_handler.                                   *)
(***************************************************************************)
\* what request.json() finds: a JSON object, a JSON value that is no object,
\* or no JSON at all
Bodies == {"object", "not_object", "not_json"}

\* the endpoint of the route, a key of __schemas
Endpoint == "/graphql"

\* request.url.path: the endpoint, or a path __schemas has no key for
Paths == {Endpoint, "/other"}

\* str(error): an entry that is a JSON string has no keys
StrEntry(error) == [keys |-> {}, message |-> error]

\* a plausible slip: the missing schema is reported in a successful response
reject_response_Ok(body, path) ==
    IF body # "object"
    THEN [status |-> 400,
          errors |-> <<StrEntry([NoError EXCEPT !.kind = "Exception", !.text = body])>>]
    ELSE [status |-> 200,
          errors |-> <<[keys |-> {"message"},
                        message |-> [NoError EXCEPT !.text = "Schema not found"]]>>]

\* the responses gql_handler returns without calling graphql(): the body is
\* read first (any exception ends in the except clause), then the schema of
\* the path is looked up
reject_response(body, path) ==
    IF body # "object"
    THEN [status |-> 400,
          errors |-> <<StrEntry([NoError EXCEPT !.kind = "Exception", !.text = body])>>]
    ELSE [status |-> 404,
          errors |-> <<[keys |-> {"message"},
                        message |-> [NoError EXCEPT !.text = "Schema not found"]]>>]

\* a plausible slip: a denial turns the response into 403 Forbidden
response_status_Forbidden(errors) ==
    IF \E i \in DOMAIN errors : errors[i].message.kind = "PermissionError"
    THEN 403 ELSE 200

\* JSONResponse(response_data): the status code is the default one
response_status(errors) == 200

NReq == 1

Requests == 1..NReq

\* one schema object per request in flight and the published one
SchemaIds == 1..(NReq + 1)

\* a schema as build_schema returns it: no field has a resolver
Unbound == [f \in FieldIds |-> NoResolve]

\* call is the record of the field call the engine made last, outcomes the
\* outcome of every selection executed so far, seen the binding configurations
\* (predicate, directive registry) of the wrappers the request has called
NoCall == [default_resolver(0) EXCEPT !.outcome = "none"]

\* earlier is the directive-results map of the field call made before the
\* call recorded in call.
\* on_authorize_fn and resolvers are the arguments the route's handler passed
\* to gql_handler; new_session is the context's slot, marked the history of
\* the ids of the sessions resolvers put there, cookie_set the Set-Cookie of
\* the response once the response exists, session the context's session,
\* body and path the request's, status and errors the response's status code
\* and the entries collected for its errors array
IdleReq == [pc |-> "idle", schema |-> 0, query |-> 0, cookie |-> "none",
            idx |-> 0, outcomes |-> <<>>, call |-> NoCall, seen |-> {},
            on_authorize_fn |-> "none", resolvers |-> RegEmpty,
            new_session |-> None, marked |-> {}, cookie_set |-> NoCookie,
            session |-> Absent, body |-> "none", path |-> "none",
            status |-> 0, errors |-> <<>>, earlier |-> <<>>]

\* schema objects no reference reaches are garbage
Held(rq) == {rq[r].schema : r \in {x \in Requests : rq[x].pc \in {"exec", "done"}}}

Collect(h, published, rq) ==
    [i \in SchemaIds |-> IF i = published \/ i \in Held(rq) THEN h[i] ELSE Unbound]

InitServer ==
    /\ loop_task = 0
    /\ self_on_authorize = "none"
    /\ self_resolvers = RegEmpty
    /\ self_directives = NoDirectives
    /\ self_schemas = 1
    /\ heap = [i \in SchemaIds |-> Unbound]
    /\ req = [r \in Requests |-> IdleReq]
    /\ bound_with = [i \in SchemaIds |-> RegEmpty]

(***************************************************************************)
(* Errors (pgql/graphql/errors/definition_error.py).  An extension map is  *)
(* a function from its keys to values; is_none tells the argument None     *)
(* from a map.                                                             *)
(***************************************************************************)
LEVEL_WARNING == 0

LEVEL_FATAL == 1

ErrorLevels == {LEVEL_WARNING, LEVEL_FATAL}

ExtensionKeys == {"code", "level", "field"}

ExtensionValues == {"AUTH_ERROR", "warning", "fatal"}

NoExtensions == [is_none |-> TRUE, map |-> [k \in {} |-> "none"]]

\* the extensions argument: None, or a dict over some of ExtensionKeys
ExtensionArgs ==
    {NoExtensions} \cup
    UNION {{[is_none |-> FALSE, map |-> m] : m \in [K -> ExtensionValues]} :
              K \in SUBSET ExtensionKeys}

ErrorCodes == {"000", "DEPRECATED"}

\* ErrorDescriptor(message, code, level)
ErrorDescriptors == [message : {"m"}, code : ErrorCodes, level : ErrorLevels]

\* the calls of the three constructors; new_warning and new_fatal take a
\* message, new_error a descriptor
ErrorCalls ==
    [fn : {"new_warning", "new_fatal"}, err : {[message |-> "m", code |-> "000",
                                              level |-> LEVEL_WARNING]},
     extensions : ExtensionArgs]
    \cup [fn : {"new_error"}, err : ErrorDescriptors, extensions : ExtensionArgs]

\* a plausible slip: the code of the error replaces the caller's
set_extension_ForceCode(extensions, err_level, code) ==
    LET given == IF extensions.is_none THEN NoExtensions.map ELSE extensions.map
        level_name == IF err_level = LEVEL_WARNING THEN "warning" ELSE "fatal"
    IN  [k \in DOMAIN given \cup {"code", "level"} |->
            IF k = "level" THEN level_name
            ELSE IF k = "code" THEN code
            ELSE given[k]]

\* _set_extension(extensions, err_level, code)
set_extension(extensions, err_level, code) ==
    LET given == IF extensions.is_none THEN NoExtensions.map ELSE extensions.map
        level_name == IF err_level = LEVEL_WARNING THEN "warning" ELSE "fatal"
    IN  [k \in DOMAIN given \cup {"code", "level"} |->
            IF k = "level" THEN level_name
            ELSE IF k = "code" /\ "code" \notin DOMAIN given THEN code
            ELSE given[k]]

\* ErrorStruct(message=..., code=..., extensions=...)
ErrorStruct(message, code, extensions) ==
    [message |-> message, code |-> code, extensions |-> extensions]

\* Warning(error_struct): GQLError.__init__(error_struct, LEVEL_WARNING)
Warning(error_struct) ==
    [class |-> "Warning", error_level |-> LEVEL_WARNING, error |-> error_struct]

\* Fatal(error_struct): GQLError.__init__(error_struct, LEVEL_FATAL)
Fatal(error_struct) ==
    [class |-> "Fatal", error_level |-> LEVEL_FATAL, error |-> error_struct]

new_error(err, extensions) ==
    LET error_struct == ErrorStruct(err.message, err.code,
                                    set_extension(extensions, err.level, err.code))
    IN  IF err.level = LEVEL_FATAL THEN Fatal(error_struct) ELSE Warning(error_struct)

new_warning(message, extensions) ==
    Warning(ErrorStruct(message, "000", set_extension(extensions, LEVEL_WARNING, "000")))

new_fatal(message, extensions) ==
    Fatal(ErrorStruct(message, "000", set_extension(extensions, LEVEL_FATAL, "000")))

NotBuilt == [returned |-> FALSE, value |-> Warning(ErrorStruct("", "", NoExtensions.map))]

DefaultErrorCall ==
    [fn |-> "new_warning", err |-> [message |-> "m", code |-> "000",
                                    level |-> LEVEL_WARNING],
     extensions |-> NoExtensions]

(***************************************************************************)
(* The schema directory.  __load_schema reads every *.gql file under the   *)
(* route's schema path, joins the texts and hands the whole to             *)
(* build_schema, which raises on a text it cannot parse or build.          *)
(***************************************************************************)
Fragments == {"types.gql", "query.gql"}

FileStates == {"ok", "malformed"}

GoodFiles == [f \in Fragments |-> "ok"]

\* a plausible slip: a fragment that cannot be parsed is left out
schema_parts_SkipMalformed(files) == {f \in Fragments : files[f] = "ok"}

\* for file_path in glob.glob(...): schema_parts.append(f.read())
schema_parts(files) == Fragments

\* '\n'.join(schema_parts): the text of every part read
full_schema(files, parts) == [f \in parts |-> files[f]]

\* build_schema(full_schema) raises: a part cannot be parsed, or there is no
\* definition at all
build_fails(text) ==
    \/ DOMAIN text = {}
    \/ \E f \in DOMAIN text : text[f] = "malformed"

NoText == [f \in {} |-> "ok"]

\* HTTPServer.__init__ with the directory in state files: the schema of the
\* route is loaded and published, or the constructor raises and there is no
\* server
construct(files) ==
    IF build_fails(full_schema(files, schema_parts(files)))
    THEN [files |-> files, served |-> NoText, attempt |-> files,
          result |-> "raised", constructed |-> FALSE]
    ELSE [files |-> files, served |-> full_schema(files, schema_parts(files)),
          attempt |-> files, result |-> "ok", constructed |-> TRUE]

InitFragments(files) == fragments = construct(files)

\* a plausible slip: the published schema object is bound again in place
gql_InPlace(resolvers) ==
    LET id == self_schemas
        schema == assign_resolvers(heap[self_schemas], resolvers, self_on_authorize,
                                   "registry", self_directives)
    IN  /\ fragments.constructed
        /\ ~build_fails(full_schema(fragments.files, schema_parts(fragments.files)))
        /\ fragments' = [fragments EXCEPT
               !.served = full_schema(fragments.files, schema_parts(fragments.files)),
               !.attempt = fragments.files,
               !.result = "ok"]
        /\ self_resolvers' = resolvers
        /\ loaded' = load_schema(source, self_scalars)
        /\ self_schemas' = id
        /\ heap' = Collect([heap EXCEPT ![id] = schema], id, req)
        /\ bound_with' = [i \in SchemaIds |->
                             IF i = id THEN resolvers
                             ELSE IF i \in Held(req) THEN bound_with[i] ELSE RegEmpty]
        /\ UNCHANGED <<self_on_authorize, self_directives, req>>
        /\ UNCHANGED <<session_vars, self_scalars, source, snake_vars, lock_vars, codec_vars, loop_vars, error_vars, wrapper_vars>>

\* HTTPServer.gql(resolvers): loads a new schema, binds it, publishes it.  The
\* new object takes the lowest slot no request holds: the object it replaces
\* in __schemas becomes garbage in the same step unless a request holds it
gql(resolvers) ==
    LET id == CHOOSE i \in SchemaIds :
                  i \notin Held(req) /\ \A j \in SchemaIds \ Held(req) : i <= j
        schema == assign_resolvers(Unbound, resolvers, self_on_authorize,
                                   "registry", self_directives)
    IN  /\ fragments.constructed
        /\ ~build_fails(full_schema(fragments.files, schema_parts(fragments.files)))
        /\ fragments' = [fragments EXCEPT
               !.served = full_schema(fragments.files, schema_parts(fragments.files)),
               !.attempt = fragments.files,
               !.result = "ok"]
        /\ self_resolvers' = resolvers
        /\ loaded' = load_schema(source, self_scalars)
        /\ self_schemas' = id
        /\ heap' = Collect([heap EXCEPT ![id] = schema], id, req)
        /\ bound_with' = [i \in SchemaIds |->
                             IF i = id THEN resolvers
                             ELSE IF i \in Held(req) THEN bound_with[i] ELSE RegEmpty]
        /\ UNCHANGED <<self_on_authorize, self_directives, req>>
        /\ UNCHANGED <<session_vars, self_scalars, source, snake_vars, lock_vars, codec_vars, loop_vars, error_vars, wrapper_vars>>

\* HTTPServer.gql(resolvers) when __load_schema raises: the registry has been
\* stored, the exception leaves gql before anything is bound or published
gql_raises(resolvers) ==
    /\ fragments.constructed
    /\ build_fails(full_schema(fragments.files, schema_parts(fragments.files)))
    /\ self_resolvers' = resolvers
    /\ fragments' = [fragments EXCEPT !.attempt = fragments.files, !.result = "raised"]
    /\ UNCHANGED <<self_on_authorize, self_directives, self_schemas, heap, req,
                   bound_with>>
    /\ UNCHANGED <<session_vars, scalar_vars, snake_vars, lock_vars, codec_vars, loop_vars, error_vars, wrapper_vars>>

\* the schema directory is edited between two loads
write_file(f, state) ==
    /\ fragments.constructed
    /\ fragments.files[f] # state
    /\ fragments' = [fragments EXCEPT !.files[f] = state]
    /\ UNCHANGED <<server_vars, session_vars, scalar_vars, snake_vars, lock_vars,
                   codec_vars, loop_vars, error_vars, wrapper_vars>>

\* HTTPServer.on_authorize(authorize_fn): re-binds the published schema in place
on_authorize(authorize_fn) ==
    /\ self_on_authorize' = authorize_fn
    /\ heap' = IF DOMAIN self_resolvers # {}
               THEN [heap EXCEPT ![self_schemas] =
                        assign_resolvers(@, self_resolvers, authorize_fn,
                                         "registry", self_directives)]
               ELSE heap
    /\ bound_with' = IF DOMAIN self_resolvers # {}
                     THEN [bound_with EXCEPT ![self_schemas] = self_resolvers]
                     ELSE bound_with
    /\ UNCHANGED <<self_resolvers, self_directives, self_schemas, req>>
    /\ ServerFrame

\* HTTPServer.directive(name, directive_instance)
directive(name, directive_instance) ==
    /\ self_directives' =
           [n \in DOMAIN self_directives \cup {name} |->
               IF n = name THEN directive_instance ELSE self_directives[n]]
    /\ UNCHANGED <<self_on_authorize, self_resolvers, self_schemas, heap, req, bound_with>>
    /\ ServerFrame

\* a plausible slip: the id is handed on only with a live session
context_session_id_Live(cookie, session) ==
    IF session = Absent THEN "none" ELSE cookie

\* context['session_id'] = request.cookies.get(cookie_name): the cookie's
\* value, whatever session_store.get made of it
context_session_id(cookie, session) == cookie

\* the per-request re-binding of gql_handler: no directives are passed
handler_rebind(resolve, resolvers, on_authorize_fn, registry) ==
    IF DOMAIN resolvers # {} /\ on_authorize_fn # "none"
    THEN assign_resolvers(resolve, resolvers, on_authorize_fn, "none", registry)
    ELSE resolve

\* the id SessionStore.create allocates: one no session ever had
FreshId == Cardinality(DOMAIN issued) + 1

\* create_session(max_age=3600) of UserWithSession.login, in the model's seconds
LoginMaxAge == MaxAge

\* gql_handler(..., cookie_name='session_id')
cookie_name == "session_id"

\* the sessions the document can create
SessionsOf(q) ==
    Cardinality({i \in DOMAIN AllQueries[q] : AllQueries[q][i].field = F_login})

\* the requests whose document can still create a session
Running(rq) == {r \in Requests : rq[r].pc = "exec" /\ SessionsOf(rq[r].query) > 0}

\* the route's handler is called with a request: it evaluates the arguments of
\* gql_handler (the server's predicate and registry as they are now) and
\* gql_handler waits for the body of the request
\* uvicorn.run serves every request on one event loop: the handlers are
\* coroutines, and between two awaits a handler runs alone.  A call that has
\* not returned keeps the loop
OnLoop == loop_task = 0

handler(r) ==
    /\ OnLoop
    /\ req[r].pc = "idle"
    /\ req' = [req EXCEPT ![r] = [IdleReq EXCEPT !.pc = "recv",
                                      !.on_authorize_fn = self_on_authorize,
                                      !.resolvers = self_resolvers]]
    /\ UNCHANGED <<self_on_authorize, self_resolvers, self_directives, self_schemas,
                   heap, bound_with>>
    /\ ServerFrame

\* gql_handler from the body of the request to the call of graphql(): reads
\* the query and the cookie, takes the endpoint's schema, builds the context,
\* re-binds the schema with the arguments it was called with
gql_handler(r, q, cookie) ==
    /\ OnLoop
    /\ req[r].pc = "recv"
    /\ Cardinality(DOMAIN issued) + Cardinality(Running(req)) + SessionsOf(q) <= MaxSessions
    /\ req' = [req EXCEPT ![r].pc = "exec", ![r].schema = self_schemas,
                          ![r].query = q, ![r].cookie = cookie, ![r].idx = 1,
                          ![r].session = context_session(session_store, cookie, now),
                          ![r].new_session = None,
                          ![r].body = "object", ![r].path = Endpoint]
    /\ heap' = [heap EXCEPT ![self_schemas] =
                   handler_rebind(@, req[r].resolvers, req[r].on_authorize_fn,
                                  self_directives)]
    /\ bound_with' = IF DOMAIN req[r].resolvers # {} /\ req[r].on_authorize_fn # "none"
                     THEN [bound_with EXCEPT ![self_schemas] = req[r].resolvers]
                     ELSE bound_with
    /\ UNCHANGED <<self_on_authorize, self_resolvers, self_directives, self_schemas>>
    /\ ServerFrame

\* gql_handler for a request whose body is no JSON object or whose path has
\* no schema: it returns before the context, the re-binding and graphql()
gql_handler_rejects(r, body, path) ==
    /\ OnLoop
    /\ req[r].pc = "recv"
    /\ body # "object" \/ path # Endpoint
    /\ req' = [req EXCEPT ![r].pc = "done", ![r].body = body, ![r].path = path,
                          ![r].status = reject_response(body, path).status,
                          ![r].errors = reject_response(body, path).errors]
    /\ UNCHANGED <<self_on_authorize, self_resolvers, self_directives,
                   self_schemas, heap, bound_with>>
    /\ ServerFrame

\* the engine executes the next field selection of the request's query
execute_field(r) ==
    LET rq == req[r]
        sel == AllQueries[rq.query][rq.idx]
        b == heap[rq.schema][sel.field]
        context == [session_id |-> context_session_id(rq.cookie, rq.session)]
        call == IF sel.under # 0 /\ rq.outcomes[sel.under] # "ok"
                THEN skipped_field(sel.field)
                ELSE IF b.bound
                THEN authorized_resolver(b, sel.field, sel.kwargs, context,
                                         self_directives, rq.call.info.directives)
                ELSE default_resolver(sel.field)
        \* UserWithSession.login: session = self.server.create_session(...);
        \* session.set('user_id', 1); info.context['new_session'] = session
        created == create_session(session_store, FreshId, LoginMaxAge, now)
        session == Session_set(created[FreshId], "user_id", 1)
    IN  /\ OnLoop
        /\ rq.pc = "exec"
        /\ rq.idx <= Len(AllQueries[rq.query])
        /\ req' = [req EXCEPT ![r].call = call,
                              ![r].outcomes = Append(@, call.outcome),
                              ![r].seen = IF call.bound
                                          THEN @ \cup {<<call.on_authorize_fn,
                                                         call.directives>>}
                                          ELSE @,
                              ![r].idx = @ + 1,
                              ![r].earlier = rq.call.info.directives,
                              ![r].errors = IF call.outcome = "error"
                                            THEN Append(@, StrEntry(call.error))
                                            ELSE @,
                              ![r].new_session = IF CreatesSession(call)
                                                 THEN session ELSE @,
                              ![r].marked = IF CreatesSession(call)
                                            THEN @ \cup {FreshId} ELSE @]
        /\ IF CreatesSession(call)
           THEN /\ session_store' = [created EXCEPT ![FreshId] = session]
                /\ issued' = SessionStore_create(issued, FreshId, LoginMaxAge, now)
                /\ written' = [written EXCEPT ![<<FreshId, "user_id">>] =
                                                  [value |-> 1, via |-> "create"]]
           ELSE UNCHANGED <<session_store, issued, written>>
        /\ UNCHANGED <<self_on_authorize, self_resolvers, self_directives,
                       self_schemas, heap, bound_with>>
        /\ UNCHANGED <<now, deleted, last_op, scalar_vars, snake_vars, lock_vars, codec_vars, loop_vars, build_vars, error_vars, wrapper_vars>>

\* the ways a call can fail to return: a function that loops or waits inside
\* the call, a coroutine function whose coroutine is never completed
Blockings == {"call", "await"}

\* authorized_resolver calls the directive functions, the predicate and the
\* resolver as plain functions, inside graphql(), on the event loop.  A
\* function that does not return keeps the loop; a coroutine the resolver
\* returned is awaited by the engine, which suspends this request alone
execute_field_blocks(r, how) ==
    LET rq == req[r]
    IN  /\ OnLoop
        /\ rq.pc = "exec"
        /\ rq.idx <= Len(AllQueries[rq.query])
        /\ heap[rq.schema][AllQueries[rq.query][rq.idx].field].bound
        /\ IF how = "call"
           THEN /\ loop_task' = r
                /\ UNCHANGED req
           ELSE /\ req' = [req EXCEPT ![r].pc = "await"]
                /\ UNCHANGED loop_task
        /\ UNCHANGED <<self_on_authorize, self_resolvers, self_directives,
                       self_schemas, heap, bound_with>>
        /\ UNCHANGED <<session_vars, scalar_vars, snake_vars, lock_vars, codec_vars,
                       build_vars, error_vars, wrapper_vars>>

\* graphql() returns: gql_handler builds the response
respond(r) ==
    /\ OnLoop
    /\ req[r].pc = "exec"
    /\ req[r].idx > Len(AllQueries[req[r].query])
    /\ req' = [req EXCEPT ![r].pc = "done",
                          ![r].status = response_status(req[r].errors),
                          ![r].cookie_set =
                              response_cookie([session_id |-> req[r].cookie,
                                               new_session |-> req[r].new_session],
                                              cookie_name)]
    /\ UNCHANGED <<self_on_authorize, self_resolvers, self_directives,
                   self_schemas, heap, bound_with>>
    /\ ServerFrame

\* the response has been sent: the handler's frame is gone
finish(r) ==
    /\ OnLoop
    /\ req[r].pc = "done"
    /\ req' = [req EXCEPT ![r] = IdleReq]
    /\ heap' = Collect(heap, self_schemas, req')
    /\ bound_with' = [i \in SchemaIds |->
                         IF i = self_schemas \/ i \in Held(req') THEN bound_with[i]
                         ELSE RegEmpty]
    /\ UNCHANGED <<self_on_authorize, self_resolvers, self_directives, self_schemas>>
    /\ ServerFrame

NextServer ==
    \/ \E resolvers \in Registries : gql(resolvers)
    \/ \E authorize_fn \in Predicates : on_authorize(authorize_fn)
    \/ \E name \in DirectiveNames, d \in Descriptors : directive(name, d)
    \/ \E r \in Requests : handler(r)
    \/ \E r \in Requests, q \in DOMAIN Queries, cookie \in Cookies :
           gql_handler(r, q, cookie)
    \/ \E r \in Requests, body \in Bodies, path \in Paths :
           gql_handler_rejects(r, body, path)
    \/ \E r \in Requests : execute_field(r)
    \/ \E r \in Requests : respond(r)
    \/ \E r \in Requests : finish(r)

(***************************************************************************)
(* The session operations as steps, with their history.                    *)
(***************************************************************************)
NoOp == [op |-> "none", id |-> 0, at |-> 0, found |-> FALSE, session |-> Absent.session,
         key |-> "none", value |-> 0, via |-> "none", read |-> <<>>]

\* the requests that call the store at the same time
NCallers == 2

Callers == 1..NCallers

\* the callers inside a call of the given kind
Entered(op) == {c \in Callers : in_call[c].op = op /\ in_call[c].via = "in"}

InitSessions ==
    /\ session_store = [i \in {} |-> Absent.session]
    /\ now = 0
    /\ issued = [i \in {} |-> Absent.session]
    /\ deleted = {}
    /\ last_op = NoOp
    /\ written = [w \in SessionIds \X SessionKeys |-> [value |-> 0, via |-> "none"]]
    /\ store_lock = 0
    /\ in_call = [c \in Callers |-> NoOp]

\* the next uuid: an id no session ever had
CreateSession(max_age) ==
    /\ FreshId \in SessionIds
    /\ session_store' = create_session(session_store, FreshId, max_age, now)
    /\ issued' = SessionStore_create(issued, FreshId, max_age, now)
    /\ last_op' = [NoOp EXCEPT !.op = "create", !.id = FreshId, !.at = now,
                                !.found = TRUE, !.session = session_store'[FreshId]]
    /\ UNCHANGED <<now, deleted, written>>
    /\ SessionFrame

GetSession(session_id) ==
    /\ last_op' = [NoOp EXCEPT !.op = "get", !.id = session_id, !.at = now,
                       !.found = get_session(session_store, session_id, now).found,
                       !.session = get_session(session_store, session_id, now).session]
    /\ UNCHANGED <<session_store, now, issued, deleted, written>>
    /\ SessionFrame

DeleteSession(session_id) ==
    /\ session_store' = delete_session(session_store, session_id)
    /\ deleted' = deleted \cup {session_id}
    /\ last_op' = [NoOp EXCEPT !.op = "delete", !.id = session_id, !.at = now,
                                !.found = session_id \in DOMAIN session_store]
    /\ UNCHANGED <<now, issued, written>>
    /\ SessionFrame

\* a second passes
Tick ==
    /\ now < MaxTime
    /\ now' = now + 1
    /\ UNCHANGED <<session_store, issued, deleted, last_op, written>>
    /\ SessionFrame

\* the ids a caller can present: those of the sessions created so far (live,
\* expired or deleted) and 0, an id no session has
PresentableIds == DOMAIN issued \cup {0}

NextSessions ==
    \/ \E max_age \in MaxAges : CreateSession(max_age)
    \/ \E session_id \in PresentableIds : GetSession(session_id)
    \/ \E session_id \in PresentableIds : DeleteSession(session_id)
    \/ Tick

\* the Session object a caller holds: the one create_session returned for
\* session_id ("create"; it is the object the store keeps while the session is
\* not deleted) or the one get_session(session_id) returns now ("get")
Handle(via, session_id) ==
    IF via = "get" THEN get_session(session_store, session_id, now)
    ELSE IF session_id \in DOMAIN session_store
    THEN [found |-> TRUE, session |-> session_store[session_id]]
    ELSE Absent

\* session.set(key, value) through a handle (tests/basic/test_sessions.py)
SessionSet(via, session_id, key, value) ==
    LET h == Handle(via, session_id)
    IN  /\ h.found
        /\ session_store' = [session_store EXCEPT
                                ![session_id] = Session_set(h.session, key, value)]
        /\ written' = [written EXCEPT ![<<session_id, key>>] =
                                          [value |-> value, via |-> via]]
        /\ last_op' = [NoOp EXCEPT !.op = "session_set", !.id = session_id, !.at = now,
                                    !.found = TRUE, !.session = session_store'[session_id],
                                    !.key = key, !.value = value, !.via = via]
        /\ UNCHANGED <<now, issued, deleted>>
        /\ SessionFrame

\* session.get(key) through a handle
SessionGet(via, session_id, key) ==
    LET h == Handle(via, session_id)
    IN  /\ h.found
        /\ last_op' = [NoOp EXCEPT !.op = "session_get", !.id = session_id, !.at = now,
                                    !.found = TRUE, !.session = h.session,
                                    !.key = key, !.value = Session_get(h.session, key),
                                    !.via = via]
        /\ UNCHANGED <<session_store, now, issued, deleted, written>>
        /\ SessionFrame

HandleKinds == {"create", "get"}

(***************************************************************************)
(* The store under concurrent callers.  The design document requires a     *)
(* store that is safe for concurrent readers and writers "e.g. by per-entry *)
(* or sharded locking": a call takes the store's lock, reads the map,      *)
(* writes the map it computed from what it read, and releases the lock.    *)
(***************************************************************************)
\* a plausible slip: the call does not wait for the lock
acquirable_Unlocked(lock) == TRUE

acquirable(lock) == lock = 0

\* the map a call writes back, from the map it read
SessionStore_apply(store, c, t) ==
    IF c.op = "create" THEN create_session(store, c.id, c.value, t)
    ELSE IF c.op = "delete" THEN delete_session(store, c.id)
    ELSE IF c.op = "session_set" /\ c.id \in DOMAIN store
    THEN [store EXCEPT ![c.id] = Session_set(@, c.key, c.value)]
    ELSE store

StoreOps == {"create", "get", "delete", "session_set", "session_get"}

\* caller c calls op: it waits for the lock; value is the max age for create
\* and the value written for Session.set (one value stands for the rest)
Call(c, op, session_id, key, value) ==
    /\ in_call[c].op = "none"
    /\ op = "create" => session_id = 0
    /\ op \notin {"create", "session_set"} => value = 1
    /\ store_lock' = store_lock
    /\ in_call' = [in_call EXCEPT ![c] =
           [NoOp EXCEPT !.op = op, !.id = session_id, !.key = key, !.value = value,
                        !.via = "wait"]]
    /\ UNCHANGED session_vars
    /\ UNCHANGED <<server_vars, scalar_vars, snake_vars, codec_vars, loop_vars, build_vars, error_vars, wrapper_vars>>

\* caller c takes the lock and reads the map; a create allocates its id
Enter(c) ==
    LET id == IF in_call[c].op = "create"
              THEN FreshId + Cardinality(Entered("create")) ELSE in_call[c].id
    IN  /\ in_call[c].via = "wait"
        /\ acquirable(store_lock)
        /\ id \in SessionIds \cup {0}
        /\ store_lock' = c
        /\ in_call' = [in_call EXCEPT ![c].id = id, ![c].via = "in",
                                      ![c].read = session_store]
        /\ UNCHANGED session_vars
        /\ UNCHANGED <<server_vars, scalar_vars, snake_vars, codec_vars, loop_vars, build_vars, error_vars, wrapper_vars>>

\* caller c leaves its call: writes the map and releases the lock; the
\* histories record the call where it takes effect
Leave(c) ==
    LET call == in_call[c]
        result == SessionStore_apply(call.read, call, now)
    IN  /\ call.via = "in"
        /\ session_store' = result
        /\ store_lock' = 0
        /\ in_call' = [in_call EXCEPT ![c] = NoOp]
        /\ issued' = IF call.op = "create"
                      THEN SessionStore_create(issued, call.id, call.value, now)
                      ELSE issued
        /\ deleted' = IF call.op = "delete" THEN deleted \cup {call.id} ELSE deleted
        /\ written' = IF call.op = "session_set" /\ call.id \in DOMAIN call.read
                       THEN [written EXCEPT ![<<call.id, call.key>>] =
                                [value |-> call.value, via |-> "get"]]
                       ELSE written
        /\ UNCHANGED <<now, last_op>>
        /\ UNCHANGED <<server_vars, scalar_vars, snake_vars, codec_vars, loop_vars, build_vars, error_vars, wrapper_vars>>

NextStore ==
    \/ \E c \in Callers, op \in StoreOps, session_id \in PresentableIds,
          key \in SessionKeys, value \in SessionValues :
           Call(c, op, session_id, key, value)
    \/ \E c \in Callers : Enter(c)
    \/ \E c \in Callers : Leave(c)

NextSessionData ==
    \/ \E max_age \in MaxAges : CreateSession(max_age)
    \/ \E session_id \in PresentableIds : GetSession(session_id)
    \/ \E session_id \in PresentableIds : DeleteSession(session_id)
    \/ Tick
    \/ \E via \in HandleKinds, session_id \in DOMAIN issued, key \in SessionKeys,
          value \in SessionValues : SessionSet(via, session_id, key, value)
    \/ \E via \in HandleKinds, session_id \in DOMAIN issued, key \in SessionKeys :
          SessionGet(via, session_id, key)


\* HTTPServer.__init__: no scalar registered, the schema of the route loaded
InitScalars(text) ==
    /\ source = text
    /\ self_scalars = NoScalars
    /\ loaded = load_schema(text, NoScalars)
    /\ codec_req = IdleCodecReq

\* a plausible slip: the registration reloads the served schema
scalar_Reload(name, scalar_instance) ==
    /\ self_scalars' = [n \in DOMAIN self_scalars \cup {name} |->
                           IF n = name THEN scalar_instance ELSE self_scalars[n]]
    /\ loaded' = load_schema(source, self_scalars')
    /\ UNCHANGED source
    /\ ScalarFrame

\* HTTPServer.scalar(name, scalar_instance)
scalar(name, scalar_instance) ==
    /\ self_scalars' = [n \in DOMAIN self_scalars \cup {name} |->
                           IF n = name THEN scalar_instance ELSE self_scalars[n]]
    /\ UNCHANGED <<source, loaded>>
    /\ ScalarFrame

NextScalars ==
    \/ \E name \in ScalarNames, scalar_instance \in Codecs : scalar(name, scalar_instance)
    \/ \E resolvers \in Registries : gql(resolvers)

\* what a step of the codec request leaves alone
CodecFrame == UNCHANGED <<server_vars, session_vars, scalar_vars, snake_vars, lock_vars,
                          loop_vars, build_vars, error_vars, wrapper_vars>>

\* gql_handler up to the engine's validation and coercion of the argument
\* after: a decoding that raises ends the query before any resolver is called
codec_request(via, value) ==
    /\ OnLoop
    /\ codec_req.pc = "idle"
    /\ \E c \in coerce_argument(loaded.argument, via, value) :
           codec_req' =
               IF c.out.raised # "none"
               THEN [codec_req EXCEPT
                        !.pc = "respond", !.via = via, !.value = value,
                        !.codec_error = c.pair.error, !.data = "null",
                        !.errors = <<ErrorEntry("argument", c.out.raised)>>]
               ELSE [codec_req EXCEPT
                        !.pc = "exec", !.via = via, !.value = value,
                        !.codec_error = c.pair.error, !.arg = c.out.value]
    /\ CodecFrame

\* the resolver of events is called and the field date of the event it
\* returned is encoded: an encoding that raises is an error of that field
resolve_date(returned) ==
    /\ OnLoop
    /\ codec_req.pc = "exec"
    /\ \E c \in complete_value(loaded.object_field, returned) :
           codec_req' =
               IF c.out.raised # "none"
               THEN [codec_req EXCEPT
                        !.pc = "respond", !.called = TRUE, !.returned = returned,
                        !.codec_error = c.pair.error, !.data = "partial",
                        !.output = "null",
                        !.errors = Append(@, ErrorEntry("field", c.out.raised))]
               ELSE [codec_req EXCEPT
                        !.pc = "respond", !.called = TRUE, !.returned = returned,
                        !.codec_error = c.pair.error,
                        !.data = "full", !.output = c.out.value]
    /\ CodecFrame

\* JSONResponse(response_data), or the except clause when the body cannot be
\* rendered
codec_respond ==
    /\ OnLoop
    /\ codec_req.pc = "respond"
    /\ codec_req' =
           IF JsonSerializable(codec_req.output)
           THEN [codec_req EXCEPT !.pc = "done",
                                  !.status = response_status(codec_req.errors),
                                  !.after_failure = @ \/ codec_req.codec_error # "none"]
           ELSE [codec_req EXCEPT !.pc = "done", !.status = 400, !.data = "none",
                                  !.errors = <<ErrorEntry("response", "TypeError")>>]
    /\ CodecFrame

\* the response is sent; the next request may come
codec_finish ==
    /\ OnLoop
    /\ codec_req.pc = "done"
    /\ codec_req' = [IdleCodecReq EXCEPT !.after_failure = codec_req.after_failure]
    /\ CodecFrame

NextCodec ==
    \/ \E scalar_instance \in CodecImpls : scalar("Date", scalar_instance)
    \/ gql(RegSessions)
    \/ \E via \in Vias, value \in InputValues : codec_request(via, value)
    \/ \E returned \in ReturnValues : resolve_date(returned)
    \/ codec_respond
    \/ codec_finish


(***************************************************************************)
(* Name translation on its own: camel_to_snake applied to every field name *)
(* of at most MaxNameLen characters over SnakeAlphabet, and to the names   *)
(* of the test cases.                                                      *)
(***************************************************************************)
MaxNameLen == 4

SnakeAlphabet == {"a", "b", "A", "B", "1", "_"}

N_getUserByID == <<"g","e","t","U","s","e","r","B","y","I","D">>

N_firstName == <<"f","i","r","s","t","N","a","m","e">>

N_getAllUsers == <<"g","e","t","A","l","l","U","s","e","r","s">>

N_id == <<"i","d">>

ExampleNames == {N_getUserByID, N_firstName, N_getAllUsers, N_id, N_getUser, N_userId}

FieldNames ==
    UNION {[1..n -> SnakeAlphabet] : n \in 0..MaxNameLen} \cup ExampleNames

NotReturned == [returned |-> FALSE, value |-> <<>>]

InitSnake(name) ==
    /\ snake_in = name
    /\ snake_out = NotReturned

\* method_name = camel_to_snake(field_name), in assign_type_resolvers
call_camel_to_snake ==
    /\ ~snake_out.returned
    /\ snake_out' = [returned |-> TRUE, value |-> camel_to_snake(snake_in)]
    /\ UNCHANGED snake_in
    /\ SnakeFrame

NextSnake == call_camel_to_snake

\* what the construction of an error leaves alone
ErrorFrame == UNCHANGED <<server_vars, session_vars, scalar_vars, snake_vars, lock_vars,
                          codec_vars, loop_vars, build_vars, wrapper_vars>>

InitErrors(call) ==
    /\ err_in = call
    /\ err_out = NotBuilt

\* the call of new_warning, new_fatal or new_error held in err_in
call_constructor ==
    /\ ~err_out.returned
    /\ err_out' =
           [returned |-> TRUE,
            value |-> IF err_in.fn = "new_warning"
                      THEN new_warning(err_in.err.message, err_in.extensions)
                      ELSE IF err_in.fn = "new_fatal"
                      THEN new_fatal(err_in.err.message, err_in.extensions)
                      ELSE new_error(err_in.err, err_in.extensions)]
    /\ UNCHANGED err_in
    /\ ErrorFrame

NextErrors == call_constructor

\* what a step of the wrapper call leaves alone
WrapperFrame == UNCHANGED <<server_vars, session_vars, scalar_vars, snake_vars, lock_vars,
                            codec_vars, loop_vars, build_vars, error_vars>>

InitWrapper == wcall = IdleCall

\* the engine calls authorized_resolver(parent, info, **kwargs): snake_kwargs,
\* session_id and directive_results = {} are set before the loop
wrapper_call(nodes, directives, kwargs, on_authorize_fn, session_id) ==
    /\ wcall.pc = "idle"
    /\ wcall' = [IdleCall EXCEPT !.pc = "directives", !.nodes = nodes,
                                 !.directives = directives, !.kwargs = kwargs,
                                 !.on_authorize_fn = on_authorize_fn,
                                 !.session_id = session_id,
                                 !.snake_kwargs = SnakeKeys(kwargs, 1, <<>>)]
    /\ WrapperFrame

\* the next annotation of the field
wrapper_directive(edit) ==
    /\ wcall.pc = "directives"
    /\ wcall.i <= Len(wcall.nodes)
    /\ wcall' = directive_node(wcall, edit)
    /\ WrapperFrame

\* the loop is over: the call context is built and the predicate is asked
wrapper_authorize ==
    /\ wcall.pc = "directives"
    /\ wcall.i > Len(wcall.nodes)
    /\ wcall' = authorize_call(wcall)
    /\ WrapperFrame

\* return original_resolver(resolver_info, **snake_kwargs)
wrapper_resolver ==
    /\ wcall.pc = "resolver"
    /\ wcall' = [wcall EXCEPT !.pc = "returned", !.log = Append(@, "resolver"),
                              !.resolver_kwargs = wcall.snake_kwargs]
    /\ WrapperFrame

\* the result or the exception is back with the engine
wrapper_done ==
    /\ wcall.pc \in {"returned", "raised"}
    /\ wcall' = IdleCall
    /\ WrapperFrame

NextWrapper ==
    \/ \E nodes \in AnnotationLists, directives \in DirectiveRegistries,
          kwargs \in KwargMaps, fn \in Predicates \cup {"none"}, sid \in Cookies :
           wrapper_call(nodes, directives, kwargs, fn, sid)
    \/ \E edit \in ArgEdits : wrapper_directive(edit)
    \/ wrapper_authorize
    \/ wrapper_resolver
    \/ wrapper_done

\* the server and its requests; no session operation happens
Init ==
    /\ InitServer
    /\ InitSessions
    /\ InitScalars(DefaultSource)
    /\ InitSnake(<<>>)
    /\ InitErrors(DefaultErrorCall)
    /\ InitWrapper
    /\ InitFragments(GoodFiles)

Next == NextServer

Spec == Init /\ [][Next]_vars

\* the session store and the clock; the rest of the server stays as constructed
SpecSessions == Init /\ [][NextSessions]_vars

\* the session operations and the reads and writes of the sessions' maps
SpecSessionData == Init /\ [][NextSessionData]_vars

\* the server of tests/basic/run_with_sessions.py: the login mutation creates
\* a session and marks it for the response's cookie
NextSessionCookie ==
    \/ gql(RegSessions)
    \/ \E authorize_fn \in Predicates : on_authorize(authorize_fn)
    \/ \E r \in Requests : handler(r)
    \/ \E r \in Requests, cookie \in Cookies,
          q \in (DOMAIN AllQueries \ DOMAIN Queries) \cup {1} :
           gql_handler(r, q, cookie)
    \/ \E r \in Requests : execute_field(r)
    \/ \E r \in Requests : respond(r)
    \/ \E r \in Requests : finish(r)
    \/ \E session_id \in DOMAIN issued : DeleteSession(session_id)

SpecSessionCookie == Init /\ [][NextSessionCookie]_vars

\* the same server without predicate: clients log in and come back with the
\* cookie they were given, while sessions expire and are deleted
NextContext ==
    \/ gql(RegSessions)
    \/ \E r \in Requests : handler(r)
    \/ \E r \in Requests, cookie \in SessionCookies, q \in {1, Len(Queries) + 1} :
           gql_handler(r, q, cookie)
    \/ \E r \in Requests : execute_field(r)
    \/ \E r \in Requests : respond(r)
    \/ \E r \in Requests : finish(r)
    \/ \E session_id \in DOMAIN issued : DeleteSession(session_id)
    \/ Tick

SpecContext == Init /\ [][NextContext]_vars

\* the same with a predicate configured: who the predicate and the resolver
\* are told the caller is
NextIdentity ==
    \/ gql(RegSessions)
    \/ on_authorize("restricted")
    \/ \E r \in Requests : handler(r)
    \/ \E r \in Requests, cookie \in SessionCookies, q \in {1, Len(Queries) + 1} :
           gql_handler(r, q, cookie)
    \/ \E r \in Requests : execute_field(r)
    \/ \E r \in Requests : respond(r)
    \/ \E r \in Requests : finish(r)
    \/ \E session_id \in DOMAIN issued : DeleteSession(session_id)
    \/ Tick

SpecIdentity == Init /\ [][NextIdentity]_vars

\* the session store called by concurrent requests
SpecStore == Init /\ [][NextStore]_vars

\* scalar registration and schema loading, for every schema text of Sources
InitAnySource ==
    /\ InitServer
    /\ InitSessions
    /\ \E text \in Sources : InitScalars(text)
    /\ InitSnake(<<>>)
    /\ InitErrors(DefaultErrorCall)
    /\ InitWrapper
    /\ InitFragments(GoodFiles)

SpecScalars == InitAnySource /\ [][NextScalars]_vars

\* requests whose argument and result pass through the codec bound to Date
SpecCodec == Init /\ [][NextCodec]_vars

\* the server constructed over any state of the schema directory, reloaded
\* while the directory is edited and requests are served
InitAnyFiles ==
    /\ InitServer
    /\ InitSessions
    /\ InitScalars(DefaultSource)
    /\ InitSnake(<<>>)
    /\ InitErrors(DefaultErrorCall)
    /\ InitWrapper
    /\ \E files \in [Fragments -> FileStates] : InitFragments(files)

NextBuild ==
    \/ \E resolvers \in {RegTypes, RegSessions} : gql(resolvers)
    \/ \E resolvers \in {RegTypes, RegSessions} : gql_raises(resolvers)
    \/ \E f \in Fragments, state \in FileStates : write_file(f, state)
    \/ \E r \in Requests : fragments.constructed /\ handler(r)
    \/ \E r \in Requests : gql_handler(r, 1, "none")
    \/ \E r \in Requests : execute_field(r)
    \/ \E r \in Requests : respond(r)
    \/ \E r \in Requests : finish(r)

SpecBuild == InitAnyFiles /\ [][NextBuild]_vars

\* the error constructors, for every call of ErrorCalls
InitAnyError ==
    /\ InitServer
    /\ InitSessions
    /\ InitScalars(DefaultSource)
    /\ InitSnake(<<>>)
    /\ InitFragments(GoodFiles)
    /\ \E call \in ErrorCalls : InitErrors(call)
    /\ InitWrapper

SpecErrors == InitAnyError /\ [][NextErrors]_vars

\* calls of the wrapper of one bound field
SpecWrapper == Init /\ [][NextWrapper]_vars

\* two requests handled concurrently: one whose resolver may never return,
\* and the request for events
NextBlocking ==
    \/ gql(RegTypes)
    \/ \E r \in Requests : handler(r)
    \/ \E r \in Requests : gql_handler(r, 1, "none")
    \/ \E r \in Requests : execute_field(r)
    \/ \E r \in Requests, how \in Blockings : execute_field_blocks(r, how)
    \/ \E r \in Requests : respond(r)
    \/ \E r \in Requests : finish(r)
    \/ \E value \in {"date", "text"} : codec_request("literal", value)
    \/ resolve_date("datetime")
    \/ codec_respond
    \/ codec_finish

\* the scheduler is fair to the request for events: a step of it that stays
\* possible is taken
SpecBlocking ==
    /\ Init
    /\ [][NextBlocking]_vars
    /\ WF_vars(resolve_date("datetime"))
    /\ WF_vars(codec_respond)

\* name translation, for every field name of FieldNames
InitAnyName ==
    /\ InitServer
    /\ InitSessions
    /\ InitScalars(DefaultSource)
    /\ \E name \in FieldNames : InitSnake(name)
    /\ InitErrors(DefaultErrorCall)
    /\ InitWrapper
    /\ InitFragments(GoodFiles)

SpecSnake == InitAnyName /\ [][NextSnake]_vars

(***************************************************************************)
(* Properties of the binding and of the field calls.                       *)
(***************************************************************************)
SeqRange(q) == {q[i] : i \in DOMAIN q}

\* the engine has just executed a selection of request r
Executed(r) ==
    /\ req[r].pc = "exec"
    /\ req'[r].pc = "exec"
    /\ req'[r].idx = req[r].idx + 1

\* the selection request r executes next
Selection(r) == AllQueries[req[r].query][req[r].idx]

DstType(f) == get_base_type_name(Fields[f].type)

\* the AuthorizeInfo of a call of field f with the cookie of request r
AuthInfoFor(r, f) ==
    [operation |-> IF Fields[f].parent = mutation_type THEN "mutation" ELSE "query",
     src_type |-> Fields[f].parent, dst_type |-> DstType(f),
     resolver |-> Fields[f].name, session_id |-> req[r].cookie]

\* the registered directives on the schema definition of field f
RegisteredOn(f, registry) ==
    {i \in DOMAIN Fields[f].directives : Fields[f].directives[i].name \in DOMAIN registry}

\* C1: for a bound field whose schema definition carries a registered directive
\* and with a predicate configured, a resolution served by the request handler
\* (the directive succeeding, the predicate allowing) calls directive.invoke,
\* the predicate and the resolver method, in this order, each exactly once.
C1_DirectiveAuthorizeResolver ==
    [][\A r \in Requests :
          ( /\ Executed(r)
            /\ req[r].schema = self_schemas
            /\ req'[r].call.bound
            /\ self_on_authorize # "none"
            /\ Authorize(self_on_authorize, AuthInfoFor(r, Selection(r).field))
            /\ RegisteredOn(Selection(r).field, self_directives) # {}
            /\ \A i \in RegisteredOn(Selection(r).field, self_directives) :
                   self_directives[Fields[Selection(r).field].directives[i].name]
                       = "PaginateDirective" )
          => req'[r].call.log = <<"directive", "authorize", "resolver">>]_vars

\* C2: when the predicate returns false for a field call, the resolver method
\* is not executed and the call fails with an error naming dstType.fieldName;
\* for (query, User, Company, company) the error names Company.company.
C2_DenialSkipsResolver ==
    \A r \in Requests :
        LET c == req[r].call
        IN  ( /\ c.auth_info # NoAuthInfo
              /\ ~Authorize(c.on_authorize_fn, c.auth_info) )
            => /\ "resolver" \notin SeqRange(c.log)
               /\ c.info = NoInfo
               /\ c.outcome = "error"
               /\ c.error.kind = "PermissionError"
               /\ c.error.type = DstType(c.field)
               /\ c.error.field = Fields[c.field].name
               /\ ( /\ c.auth_info.operation = "query"
                    /\ c.auth_info.src_type = "User"
                    /\ c.auth_info.dst_type = "Company"
                    /\ c.auth_info.resolver = N_company )
                  => (c.error.type = "Company" /\ c.error.field = N_company)

C2_Witness ==
    \E r \in Requests :
        /\ req[r].call.auth_info =
               [operation |-> "query", src_type |-> "User", dst_type |-> "Company",
                resolver |-> N_company, session_id |-> "guest"]
        /\ req[r].call.on_authorize_fn = "restricted"
        /\ req[r].call.outcome = "error"
        /\ req[r].outcomes = <<"ok", "error">>

\* a registered directive on the schema definition of the selection request r
\* executes next returns an error
DirectiveFails(r) ==
    \E i \in RegisteredOn(Selection(r).field, self_directives) :
        Invoke(self_directives[Fields[Selection(r).field].directives[i].name],
               Selection(r).kwargs, DstType(Selection(r).field),
               Fields[Selection(r).field].name).error # "none"

RootsExecuted(rq) ==
    /\ Len(rq.outcomes) = Len(AllQueries[rq.query])
    /\ \A i \in DOMAIN rq.outcomes :
           AllQueries[rq.query][i].under = 0 => rq.outcomes[i] \in {"ok", "error"}

C4_QueryOccurrenceWins ==
    [][\A r \in Requests :
          ( /\ Executed(r)
            /\ req'[r].call.outcome = "ok"
            /\ req'[r].call.bound )
          => \A i \in DOMAIN Selection(r).directives :
                 LET dyn == Selection(r).directives[i]
                 IN  ( /\ dyn.name \in DOMAIN self_directives
                       /\ \E j \in DOMAIN Fields[Selection(r).field].directives :
                              Fields[Selection(r).field].directives[j].name = dyn.name )
                     => /\ DictHas(req'[r].call.info.directives, dyn.name)
                        /\ DictGet(req'[r].call.info.directives, dyn.name, NoResult)
                             = Invoke(self_directives[dyn.name], dyn.args,
                                      DstType(Selection(r).field),
                                      Fields[Selection(r).field].name).result]_vars

\* C5: for every field, bind attaches a wrapped resolver taken from the provider
\* registered under the parent type name if it has the translated method name,
\* otherwise from the provider registered under the destination type name if it
\* has it, otherwise the field keeps the resolution it was loaded with.
C5_BindPrecedence ==
    \A f \in FieldIds :
        LET b == heap[self_schemas][f]
            m == camel_to_snake(Fields[f].name)
            own == Fields[f].parent
            dst == DstType(f)
            classes == bound_with[self_schemas]
        IN  IF own \in DOMAIN classes /\ m \in classes[own]
            THEN b.bound /\ b.provider = own /\ b.method = m
            ELSE IF dst \in DOMAIN classes /\ m \in classes[dst]
            THEN b.bound /\ b.provider = dst /\ b.method = m
            ELSE b = NoResolve

C5_Witness ==
    /\ bound_with[self_schemas] = RegTypes
    /\ heap[self_schemas][F_getUser].provider = "Query"
    /\ heap[self_schemas][F_getUser].method = M_get_user
    /\ heap[self_schemas][F_company].provider = "Company"
    /\ heap[self_schemas][F_company].src_type = "User"
    /\ heap[self_schemas][F_getCompany].method = M_get_company
    /\ heap[self_schemas][F_name] = NoResolve

\* C8: no request resolves fields against a binding set in which some fields
\* carry the old configuration and others the new.
C8_NoMixedBinding ==
    \A r \in Requests : Cardinality(req[r].seen) <= 1

\* C11: once on_authorize has replaced the predicate, every resolution of a
\* bound field consults the predicate that is active (the one the last
\* on_authorize call was given) and never the one it replaced.
C11_ActivePredicateConsulted ==
    [][\A r \in Requests :
          ( /\ Executed(r)
            /\ req'[r].call.bound
            /\ self_on_authorize # "none" )
          => req'[r].call.on_authorize_fn = self_on_authorize]_vars

\* C12: once directive(name, d2) has replaced the descriptor under a name,
\* every resolution of a bound field whose schema definition carries that name
\* invokes the descriptor now registered under it, and no other.
C12_RegisteredDescriptorInvoked ==
    [][\A r \in Requests :
          ( /\ Executed(r)
            /\ req'[r].call.bound
            /\ RegisteredOn(Selection(r).field, self_directives) # {} )
          => /\ req'[r].call.invoked # <<>>
             /\ \A k \in DOMAIN req'[r].call.invoked :
                    req'[r].call.invoked[k].directive_instance
                        = self_directives[req'[r].call.invoked[k].name]]_vars

\* the names of the directives on the schema definition of field f
SchemaDirectiveNames(f) ==
    {Fields[f].directives[i].name : i \in DOMAIN Fields[f].directives}

\* C13: a registered directive that appears only on the field's occurrence in
\* the query is invoked before the resolver method, and its result is in the
\* resolver's directive results under its name.
C13_QueryOnlyDirectiveInvoked ==
    [][\A r \in Requests :
          ( /\ Executed(r)
            /\ req'[r].call.bound
            /\ req'[r].call.outcome = "ok" )
          => \A i \in DOMAIN Selection(r).directives :
                 LET dyn == Selection(r).directives[i]
                 IN  ( /\ dyn.name \in DOMAIN self_directives
                       /\ self_directives[dyn.name] = "PaginateDirective"
                       /\ dyn.name \notin SchemaDirectiveNames(Selection(r).field) )
                     => /\ \E k \in DOMAIN req'[r].call.invoked :
                               req'[r].call.invoked[k].name = dyn.name
                        /\ req'[r].call.log[1] = "directive"
                        /\ DictHas(req'[r].call.info.directives, dyn.name)]_vars

\* C14: for a field whose schema definition carries @paginate(page: 1,
\* split: 5), selected with no directive, the paginate directive is invoked
\* with page = 1 and split = 5 and the resolver sees limit = 5.
C14_SchemaDirectiveArguments ==
    [][\A r \in Requests :
          ( /\ Executed(r)
            /\ req'[r].call.bound
            /\ req'[r].call.outcome = "ok"
            /\ Selection(r).directives = <<>>
            /\ Fields[Selection(r).field].directives =
                   <<[name |-> "paginate", args |-> PaginateSchemaArgs]>>
            /\ req'[r].call.invoked # <<>>
            /\ req'[r].call.invoked[1].directive_instance = "PaginateDirective" )
          => LET seen_by_resolver ==
                     DictGet(req'[r].call.info.directives, "paginate", NoResult)
             IN  /\ seen_by_resolver.page = 1
                 /\ seen_by_resolver.split = 5
                 /\ seen_by_resolver.limit = 5]_vars

(***************************************************************************)
(* Properties of the session store (under SpecSessions).                   *)
(***************************************************************************)
Expiry(session_id) == issued[session_id].created_at + issued[session_id].max_age

\* C6: get(id) returns the session exactly when a session with that id was
\* created, has not been deleted, and now <= createdAt + maxAge; at
\* now = createdAt + maxAge it is still returned, at every later instant absent.
C6_GetIffLive ==
    /\ last_op.op = "get" =>
          /\ last_op.found <=> ( /\ last_op.id \in DOMAIN issued
                                 /\ last_op.id \notin deleted
                                 /\ last_op.at <= Expiry(last_op.id) )
          /\ last_op.found => last_op.session = issued[last_op.id]
    /\ \A i \in DOMAIN issued :
          get_session(session_store, i, now).found
              <=> (i \notin deleted /\ now <= Expiry(i))

C6_Witness ==
    /\ last_op.op = "get"
    /\ last_op.found
    /\ last_op.at = Expiry(last_op.id)
    /\ issued[last_op.id].max_age = 1

\* C7: delete(id) makes every later get(id) return absent whatever the
\* remaining TTL, and deleting an unknown, expired or already deleted id changes
\* nothing; a delete leaves every other session unchanged.
C7_DeleteIdempotent ==
    /\ [](\A i \in deleted : ~get_session(session_store, i, now).found)
    /\ [][last_op'.op = "delete" /\ last_op' # last_op =>
             /\ last_op'.id \notin DOMAIN session_store'
             /\ \A j \in PresentableIds \ {last_op'.id} :
                    /\ j \in DOMAIN session_store' <=> j \in DOMAIN session_store
                    /\ j \in DOMAIN session_store => session_store'[j] = session_store[j]
             /\ ~get_session(session_store, last_op'.id, now).found
                    => \A j \in PresentableIds :
                           get_session(session_store', j, now)
                               = get_session(session_store, j, now)]_vars

C7_Witness ==
    /\ last_op.op = "get"
    /\ ~last_op.found
    /\ last_op.id \in deleted
    /\ last_op.id \in DOMAIN issued
    /\ last_op.at < Expiry(last_op.id)
    /\ DOMAIN session_store # {}

\* C15: every create returns a session whose id no session created before
\* (live, expired or deleted) has, whose map is empty, and which a get by that
\* id at once returns.
C15_CreateFreshEmptyLive ==
    [][(last_op'.op = "create" /\ last_op' # last_op) =>
          /\ last_op'.id \notin DOMAIN issued
          /\ last_op'.id \notin DOMAIN session_store
          /\ last_op'.session.session_id = last_op'.id
          /\ last_op'.session.data = <<>>
          /\ get_session(session_store', last_op'.id, now').found
          /\ get_session(session_store', last_op'.id, now').session = last_op'.session]_vars

C15_Witness ==
    /\ last_op.op = "create"
    /\ last_op.id = 2
    /\ 1 \in deleted
    /\ get_session(session_store, 2, now).found

(***************************************************************************)
(* Properties of the sessions' maps (under SpecSessionData).               *)
(***************************************************************************)
\* C16: Session.get(k) returns the value of the most recent Session.set(k, v)
\* on that session, whichever handle wrote it and whichever handle reads it
\* (the one create returned or the one get(id) returns); a key never set reads
\* as absent.
C16_LastWriteWins ==
    /\ last_op.op = "session_get" =>
           last_op.value = written[<<last_op.id, last_op.key>>].value
    /\ \A i \in DOMAIN issued, k \in SessionKeys, via \in HandleKinds :
           Handle(via, i).found =>
               Session_get(Handle(via, i).session, k) = written[<<i, k>>].value

C16_Witness ==
    /\ last_op.op = "session_get"
    /\ last_op.via = "get"
    /\ last_op.value = 2
    /\ written[<<last_op.id, last_op.key>>] = [value |-> 2, via |-> "create"]

\* C17: no access renews a session: no step changes the creation time or the
\* max age of a stored session, and a session that is past its expiry (as
\* created) is absent for get now and after every later step, whatever was
\* read or written before.
C17_NoRenewal ==
    [][ /\ \A i \in DOMAIN session_store \cap DOMAIN session_store' :
               /\ session_store'[i].created_at = session_store[i].created_at
               /\ session_store'[i].max_age = session_store[i].max_age
        /\ \A i \in DOMAIN issued :
               now > Expiry(i) =>
                   /\ ~get_session(session_store, i, now).found
                   /\ ~get_session(session_store', i, now').found ]_vars

C17_Witness ==
    /\ last_op.op = "get"
    /\ ~last_op.found
    /\ last_op.id \in DOMAIN session_store
    /\ last_op.at > Expiry(last_op.id)
    /\ written[<<last_op.id, "user_id">>].value # 0

\* C23: while no predicate is configured, no bound field call consults a
\* predicate or fails with a denial, and every bound field call in which no
\* invoked directive returned an error runs the resolver method.
C23_NoPredicateAllowsAll ==
    \A r \in Requests :
        LET c == req[r].call
        IN  (c.bound /\ self_on_authorize = "none") =>
                /\ "authorize" \notin SeqRange(c.log)
                /\ c.error.kind # "PermissionError"
                /\ (\A k \in DOMAIN c.invoked :
                        Invoke(c.invoked[k].directive_instance, c.invoked[k].directive_args,
                               DstType(c.field), Fields[c.field].name).error = "none")
                   => /\ c.outcome = "ok"
                      /\ c.log # <<>>
                      /\ c.log[Len(c.log)] = "resolver"
                      /\ c.info.resolver = Fields[c.field].name

\* a client without cookie resolves company under User with no predicate
\* configured, after a field whose directive was invoked
C23_Witness ==
    \E r \in Requests :
        /\ self_on_authorize = "none"
        /\ req[r].cookie = "none"
        /\ req[r].call.bound
        /\ req[r].call.field = F_company
        /\ req[r].call.log = <<"resolver">>
        /\ req[r].outcomes = <<"ok", "ok">>

(***************************************************************************)
(* Properties of the response envelope.                                    *)
(***************************************************************************)
\* C24: the response to a request whose path has no schema, or whose body is
\* not a JSON object, has a status outside 200..299 and exactly one entry in
\* its errors array, and no field of a query was executed for the request.
C24_RejectedRequest ==
    \A r \in Requests :
        (req[r].pc = "done" /\ (req[r].body # "object" \/ req[r].path # Endpoint)) =>
            /\ req[r].status \notin 200..299
            /\ Len(req[r].errors) = 1
            /\ req[r].outcomes = <<>>
            /\ req[r].call = NoCall
            /\ req[r].query = 0

\* a well-formed body sent to a path without schema, on a configured server
C24_Witness ==
    \E r \in Requests :
        /\ req[r].pc = "done"
        /\ req[r].body = "object"
        /\ req[r].path # Endpoint
        /\ req[r].status = 404
        /\ self_resolvers = RegTypes

\* C25: a field call denied by the predicate adds the denial to the errors of
\* the request, and the response of a request that ran its query has the
\* success status and reports every error collected, denials included.
C25_DenialKeepsStatus ==
    [][\A r \in Requests :
          /\ (Executed(r) /\ req'[r].call.error.kind = "PermissionError") =>
                 /\ req'[r].errors = Append(req[r].errors, StrEntry(req'[r].call.error))
                 /\ req'[r].status = 0
          /\ (req[r].pc = "exec" /\ req'[r].pc = "done") =>
                 /\ req'[r].status = 200
                 /\ req'[r].errors = req[r].errors]_vars

C25_Witness ==
    \E r \in Requests :
        /\ req[r].pc = "done"
        /\ req[r].status = 200
        /\ \E i \in DOMAIN req[r].errors :
               /\ req[r].errors[i].message.kind = "PermissionError"
               /\ req[r].errors[i].message.type = "Company"

ErrorKeys == {"message", "code", "locations", "path", "extensions"}

\* C26: every entry of a response's errors array is an object with the keys
\* message, code, locations, path and extensions.
C26_NormalizedErrors ==
    \A r \in Requests :
        req[r].pc = "done" =>
            \A i \in DOMAIN req[r].errors : req[r].errors[i].keys = ErrorKeys

C20_VisibleAtOnceSentOnResponse ==
    [][\A r \in Requests :
          /\ \A id \in req'[r].marked \ req[r].marked :
                 /\ get_session(session_store', id, now').found
                 /\ get_session(session_store', id, now').session.session_id = id
                 /\ req'[r].pc = "exec"
                 /\ \A r2 \in Requests : req'[r2].cookie_set.value # id
          /\ req'[r].cookie_set # req[r].cookie_set /\ req'[r].cookie_set # NoCookie =>
                 /\ req[r].pc = "exec" /\ req'[r].pc = "done"
                 /\ req'[r].cookie_set.value \in req[r].marked]_vars

C20_Witness ==
    \E r \in Requests :
        /\ req[r].pc = "exec"
        /\ req[r].idx <= Len(AllQueries[req[r].query])
        /\ req[r].marked # {}
        /\ \A id \in req[r].marked : get_session(session_store, id, now).found

\* C21: the context gql_handler builds for a request holds the store's session
\* for the id the cookie names when that session was created, is not deleted
\* and is not past its expiry, and no session when the cookie is missing,
\* names no session created, or names one expired or deleted; the new_session
\* slot of the new context is empty.
C21_ContextSession ==
    [][\A r \in Requests :
          (req[r].pc = "recv" /\ req'[r].pc = "exec") =>
              LET id == IdOf(req'[r].cookie)
                  live == /\ req'[r].cookie # "none"
                          /\ id \in DOMAIN issued
                          /\ id \notin deleted
                          /\ now <= Expiry(id)
              IN  /\ live => /\ req'[r].session.found
                              /\ req'[r].session.session = session_store[id]
                              /\ req'[r].session.session.session_id = id
                  /\ ~live => req'[r].session = Absent
                  /\ req'[r].new_session = None
                  /\ req'[r].marked = {}]_vars

\* a request whose cookie names a session that expired without being deleted,
\* after an earlier request of the same client was given its session
C21_Witness ==
    \E r \in Requests :
        /\ req[r].pc = "exec"
        /\ IdOf(req[r].cookie) \in DOMAIN session_store
        /\ now > Expiry(IdOf(req[r].cookie))
        /\ req[r].session = Absent
        /\ req[r].idx = 1

C27_CodecFailureIsFieldError ==
    [][/\ (codec_req.codec_error = "none" /\ codec_req'.codec_error # "none") =>
              /\ Len(codec_req'.errors) = Len(codec_req.errors) + 1
              /\ codec_req'.pc = "respond"
              /\ UNCHANGED <<server_vars, session_vars, scalar_vars>>
       /\ (codec_req.codec_error # "none" /\ codec_req.pc = "respond"
              /\ codec_req'.pc = "done") =>
              /\ codec_req'.status = 200
              /\ codec_req'.errors = codec_req.errors
              /\ Len(codec_req'.errors) >= 1]_vars

\* after the response to a request whose date could not be encoded, a later
\* request is answered without error
C27_Witness ==
    /\ codec_req.after_failure
    /\ codec_req.pc = "done"
    /\ codec_req.status = 200
    /\ codec_req.errors = <<>>
    /\ codec_req.called
    /\ Leaf(loaded.object_field).inst = "Scalar"

(***************************************************************************)
(* Properties of the error constructors (under SpecErrors).                *)
(***************************************************************************)
\* the class, error_level() and extensions['level'] of a built error agree
LevelsAgree(e) ==
    \/ /\ e.class = "Warning"
       /\ e.error_level = LEVEL_WARNING
       /\ e.error.extensions["level"] = "warning"
    \/ /\ e.class = "Fatal"
       /\ e.error_level = LEVEL_FATAL
       /\ e.error.extensions["level"] = "fatal"

\* C31 as stated: the class, the level and extensions['level'] of a built
\* error agree, and every caller-supplied extension entry is unchanged.
C31_AgreeAndAllEntriesKept ==
    err_out.returned =>
        /\ LevelsAgree(err_out.value)
        /\ \A k \in DOMAIN err_in.extensions.map :
               err_out.value.error.extensions[k] = err_in.extensions.map[k]

\* C31 amended: the class, the level and extensions['level'] of a built
\* error agree, the class is the one the constructor or the descriptor's
\* level names, and every caller-supplied extension entry other than 'level',
\* a caller-supplied 'code' included, is unchanged; without a caller's 'code'
\* the code of the error is entered.
C31_AgreeAndEntriesKept ==
    err_out.returned =>
        /\ LevelsAgree(err_out.value)
        /\ err_out.value.class =
               IF \/ err_in.fn = "new_fatal"
                  \/ err_in.fn = "new_error" /\ err_in.err.level = LEVEL_FATAL
               THEN "Fatal" ELSE "Warning"
        /\ \A k \in DOMAIN err_in.extensions.map \ {"level"} :
               err_out.value.error.extensions[k] = err_in.extensions.map[k]
        /\ "code" \notin DOMAIN err_in.extensions.map =>
               err_out.value.error.extensions["code"] =
                   (IF err_in.fn = "new_error" THEN err_in.err.code ELSE "000")

\* new_error of a fatal descriptor with the caller's code and another entry
C31_Witness ==
    /\ err_out.returned
    /\ err_in.fn = "new_error"
    /\ err_in.err.level = LEVEL_FATAL
    /\ err_in.err.code = "DEPRECATED"
    /\ ~err_in.extensions.is_none
    /\ DOMAIN err_in.extensions.map = {"code", "field"}
    /\ err_out.value.error.extensions["code"] = "AUTH_ERROR"
    /\ err_out.value.class = "Fatal"

(***************************************************************************)
(* Properties of the paginate example.                                     *)
(***************************************************************************)
\* the call of getUser, whose schema definition carries
\* @paginate(page: 1, split: 5), selected as getUser @paginate(page: 3,
\* split: 2), has reached the resolver after PaginateDirective was invoked
PaginatedCall(r) ==
    /\ req[r].query # 0
    /\ AllQueries[req[r].query] = QueryPaginated
    /\ req[r].call.field = F_getUser
    /\ req[r].call.bound
    /\ req[r].call.outcome = "ok"
    /\ req[r].call.invoked # <<>>
    /\ req[r].call.invoked[1].directive_instance = "PaginateDirective"

GqlBinding ==
    assign_resolvers(Unbound, self_resolvers, self_on_authorize, "registry",
                     self_directives)

C34_SessionIdIsCookie ==
    \A r \in Requests :
        (req[r].pc = "exec" /\ req[r].call.bound) =>
            /\ req[r].call.auth_info # NoAuthInfo =>
                   /\ req[r].call.auth_info.session_id = req[r].cookie
                   /\ req[r].call.auth_info.session_id = "none" <=> req[r].cookie = "none"
            /\ req[r].call.outcome = "ok" =>
                   req[r].call.info.session_id = req[r].cookie

\* the cookie names a session that was issued and is no longer live; the
\* predicate was asked with that id and the resolver was called with it
C34_Witness ==
    \E r \in Requests :
        /\ req[r].pc = "exec"
        /\ req[r].cookie \notin {"none", "guest"}
        /\ IdOf(req[r].cookie) \in DOMAIN issued
        /\ req[r].session = Absent
        /\ req[r].call.bound
        /\ req[r].call.on_authorize_fn = "restricted"
        /\ req[r].call.outcome = "ok"
        /\ req[r].call.auth_info.session_id = req[r].cookie
        /\ req[r].call.info.session_id = req[r].cookie

(***************************************************************************)
(* Properties of one wrapper call (under SpecWrapper).                     *)
(***************************************************************************)
\* C35: the resolver receives exactly the arguments supplied to the field,
\* each under its camel_to_snake-translated name with its original value,
\* whatever the directives did to the maps they were given; every directive
\* received the arguments under their schema names.
C35_ResolverGetsFieldArguments ==
    /\ \A j \in DOMAIN wcall.invoked :
           wcall.invoked[j].directive_args = wcall.kwargs
    /\ wcall.pc = "returned" =>
           \A received \in {wcall.resolver_kwargs, wcall.info.args} :
               /\ \A j \in DOMAIN wcall.kwargs :
                      /\ DictHas(received, camel_to_snake(wcall.kwargs[j][1]))
                      /\ DictGet(received, camel_to_snake(wcall.kwargs[j][1]), -1)
                             = wcall.kwargs[j][2]
               /\ \A j \in DOMAIN received :
                      \E m \in DOMAIN wcall.kwargs :
                          received[j][1] = camel_to_snake(wcall.kwargs[m][1])

(***************************************************************************)
(* Properties of _replace_scalar_in_type (under SpecScalars).              *)
(***************************************************************************)
\* the list / required modifiers of a type reference, outermost first
RECURSIVE WrapperKinds(_)
WrapperKinds(t) == IF IsWrapper(t) THEN <<t.kind>> \o WrapperKinds(t.of) ELSE <<>>

\* the scalar names whose type the last load replaced
Replaced == {n \in DOMAIN loaded.type_map : loaded.type_map[n].inst # "parsed"}

\* C36: _replace_scalar_in_type returns a type with the same sequence of
\* list / required wrappers as its input; its leaf is the new scalar when
\* the input's leaf has the bound name and the input's own leaf otherwise.
C36_WrappersKeptLeafReplaced ==
    /\ \A t \in TypeRefs, n \in ScalarNames \cup DeclaredScalars, c \in Codecs :
           LET out == replace_scalar_in_type(t, n, Named(n, c))
           IN  /\ WrapperKinds(out) = WrapperKinds(t)
               /\ Leaf(out) = IF Leaf(t).name = n THEN Named(n, c) ELSE Leaf(t)
    /\ \A place \in {"object_field", "argument"} :
           /\ WrapperKinds(loaded[place]) = WrapperKinds(source[place])
           /\ Leaf(loaded[place]) =
                  IF Leaf(source[place]).name \in Replaced
                  THEN loaded.type_map[Leaf(source[place]).name]
                  ELSE Leaf(source[place])

\* a load rewrote a reference under two modifiers and left another leaf alone
C36_Witness ==
    /\ "Date" \in Replaced
    /\ Len(WrapperKinds(source.object_field)) = MaxWrap
    /\ Leaf(source.object_field).name = "Date"
    /\ Leaf(loaded.object_field) = loaded.type_map["Date"]
    /\ Leaf(source.argument).name = "String"
    /\ IsWrapper(source.argument)
    /\ loaded.argument = source.argument

(***************************************************************************)
(* Properties of one bind run.                                             *)
(***************************************************************************)
\* the schemas no gql() call has built yet
Unbuilt(s) == \A f \in FieldIds : ~heap[s][f].bound

\* C37: one run of assign_resolvers calls assign_type_resolvers once for each
\* root type the schema has, with that root's operation kind, and then once
\* for every other object type with operation 'query'; no type, hence no
\* field, is processed twice, and every bound field holds the one binding
\* its type's call made.
C37_BindRunOrder ==
    /\ \A t \in ObjectTypes :
           Cardinality({i \in DOMAIN bind_calls : bind_calls[i].type = t}) = 1
    /\ \A i \in DOMAIN bind_calls :
           LET c == bind_calls[i]
           IN  /\ c.type \in ObjectTypes
               /\ c.type = query_type => c.operation = "query"
               /\ c.type = mutation_type => c.operation = "mutation"
               /\ c.type = subscription_type => c.operation = "subscription"
               /\ c.type \notin RootTypes =>
                      /\ c.operation = "query"
                      /\ \A j \in DOMAIN bind_calls :
                             bind_calls[j].type \in RootTypes => j < i
    /\ \A sid \in DOMAIN heap, f \in FieldIds :
           heap[sid][f].bound =>
               \E i \in DOMAIN bind_calls :
                   /\ bind_calls[i].type = Fields[f].parent
                   /\ heap[sid][f].src_type = bind_calls[i].type
                   /\ heap[sid][f].operation = bind_calls[i].operation
                   /\ heap[sid][f].resolver_name = Fields[f].name
    /\ \A sid \in DOMAIN heap :
           (~Unbuilt(sid) /\ sid \in DOMAIN bound_with) =>
               \E fn \in Predicates \cup {"none"}, ref \in {"registry", "fresh"} :
                   heap[sid] = bind_run([f \in FieldIds |-> NoResolve], Len(bind_calls),
                                        bound_with[sid], fn, ref)

\* a schema whose query, mutation and nested fields are bound, each with the
\* kind of its type's call
C37_Witness ==
    \E sid \in DOMAIN heap :
        /\ heap[sid][F_getUser].bound /\ heap[sid][F_getUser].operation = "query"
        /\ heap[sid][F_createUser].bound /\ heap[sid][F_createUser].operation = "mutation"
        /\ heap[sid][F_company].bound /\ heap[sid][F_company].operation = "query"

\* the annotations among the first n of the field that have a descriptor
RegisteredUpTo(c, n) == {k \in 1..n : c.nodes[k] \in DOMAIN c.directives}

\* C38: the registered directives of a field's schema definition are invoked
\* one at a time in declaration order, each exactly once, and an error
\* returned by one of them ends the field call: no later directive of the
\* field, no predicate and no resolver is called after it.
C38_InOrderUntilError ==
    /\ [](LET c == wcall
              n == Len(c.invoked)
              passed == IF c.pc = "directives" THEN c.i - 1
                        ELSE IF n > 0 /\ c.invoked[n].error # "none" THEN c.invoked[n].at
                        ELSE Len(c.nodes)
          IN  /\ \A j \in 1..n :
                     /\ c.invoked[j].name = c.nodes[c.invoked[j].at]
                     /\ j < n => c.invoked[j].at < c.invoked[j + 1].at
                     /\ c.invoked[j].error # "none" =>
                            /\ j = n
                            /\ c.pc = "raised"
                            /\ c.log[Len(c.log)] = "directive"
              /\ {c.invoked[j].at : j \in 1..n} = RegisteredUpTo(c, passed))
    /\ [][/\ wcall.pc = "directives" =>
                 Len(wcall'.invoked) \in {Len(wcall.invoked), Len(wcall.invoked) + 1}
          /\ wcall.pc = "raised" => wcall'.pc = "idle"]_vars

\* three registered annotations: the first returned a result, the second an
\* error, the third was never invoked
C38_Witness ==
    /\ wcall.pc = "raised"
    /\ Len(wcall.nodes) = 3
    /\ \A k \in 1..3 : wcall.nodes[k] \in DOMAIN wcall.directives
    /\ Len(wcall.invoked) = 2
    /\ wcall.invoked[1].at = 1 /\ wcall.invoked[1].error = "none"
    /\ wcall.invoked[2].at = 2 /\ wcall.invoked[2].error # "none"
    /\ wcall.log = <<"directive", "directive">>

\* the annotations of the call's field that have no descriptor
Unregistered(c) == {k \in DOMAIN c.nodes : c.nodes[k] \notin DOMAIN c.directives}

\* C39: an annotation whose name has no registered descriptor is skipped:
\* nothing is invoked for it, the directive results get no entry for it, and
\* the call goes on to the next annotation, the predicate and the resolver.
C39_UnregisteredSkipped ==
    /\ [](\A k \in Unregistered(wcall) :
              /\ \A j \in DOMAIN wcall.invoked :
                     /\ wcall.invoked[j].at # k
                     /\ wcall.invoked[j].name # wcall.nodes[k]
              /\ ~DictHas(wcall.directive_results, wcall.nodes[k])
              /\ ~DictHas(wcall.info.directives, wcall.nodes[k]))
    /\ []((Unregistered(wcall) = DOMAIN wcall.nodes) =>
              /\ wcall.log = (IF wcall.pc \in {"resolver", "returned", "raised"}
                                 /\ wcall.on_authorize_fn # "none"
                              THEN <<"authorize">> ELSE <<>>)
                             \o (IF wcall.pc = "returned" THEN <<"resolver">> ELSE <<>>)
              /\ wcall.pc = "raised" => wcall.error = "PermissionError")
    /\ [][(/\ wcall.pc = "directives"
           /\ wcall.i \in Unregistered(wcall)) =>
              wcall' = [wcall EXCEPT !.i = @ + 1]]_vars

\* a field with an annotation nobody registered and a registered one: the
\* second was invoked, the predicate was asked, the resolver was called
C39_Witness ==
    /\ wcall.pc = "returned"
    /\ Len(wcall.nodes) = 2
    /\ Unregistered(wcall) = {1}
    /\ Len(wcall.invoked) = 1
    /\ wcall.invoked[1].at = 2
    /\ Len(wcall.info.directives) = 1
    /\ wcall.on_authorize_fn = "restricted"
    /\ wcall.log = <<"directive", "authorize", "resolver">>

(***************************************************************************)
(* Properties of the publication of a schema.                              *)
(***************************************************************************)
\* C40: gql() leaves the schema object published before the call as it was;
\* it publishes a new object, fully bound, and a request that holds the old
\* object keeps the bindings it had.
C40_GqlPublishesNewObject ==
    [][(\E resolvers \in Registries : gql(resolvers)) =>
           /\ \A r \in Requests :
                  req[r].pc = "exec" =>
                      /\ req'[r].schema = req[r].schema
                      /\ self_schemas' # req[r].schema
                      /\ heap'[req[r].schema] = heap[req[r].schema]
           /\ heap'[self_schemas'] =
                  assign_resolvers(Unbound, self_resolvers', self_on_authorize,
                                   "registry", self_directives)]_vars

\* a request executes on the schema it took, bound by an earlier gql(), while
\* the endpoint serves a newer object with other bindings
C40_Witness ==
    \E r \in Requests :
        /\ req[r].pc = "exec"
        /\ req[r].schema # self_schemas
        /\ heap[req[r].schema][F_getUser].bound
        /\ ~heap[self_schemas][F_getUser].bound
        /\ self_resolvers = RegEmpty

(***************************************************************************)
(* Properties of the call context.                                         *)
(***************************************************************************)
\* C30: the call context a resolver receives holds the arguments of its own
\* field call and, as directive results, exactly the results of the
\* directives invoked in this call with this call's arguments: nothing of an
\* earlier field call is in it.
C30_FreshCallContext ==
    [][\A r \in Requests :
          ( /\ Executed(r)
            /\ req'[r].call.bound
            /\ req'[r].call.outcome = "ok" )
          => LET call == req'[r].call
                 kwargs == Selection(r).kwargs
             IN  /\ call.info.args = SnakeKeys(kwargs, 1, <<>>)
                 /\ \A k \in DOMAIN call.invoked : call.invoked[k].directive_args = kwargs
                 /\ \A i \in DOMAIN call.info.directives :
                        \E k \in DOMAIN call.invoked :
                            /\ call.invoked[k].name = call.info.directives[i][1]
                            /\ call.info.directives[i][2] =
                                   Invoke(call.invoked[k].directive_instance, kwargs,
                                          call.info.type_name, call.info.resolver).result]_vars

\* after getUser was resolved with the results of paginate, getCompany of the
\* same request is resolved with an empty directive-results map
C30_Witness ==
    \E r \in Requests :
        /\ req[r].earlier # <<>>
        /\ DictHas(req[r].earlier, "paginate")
        /\ req[r].call.bound
        /\ req[r].call.outcome = "ok"
        /\ req[r].call.field = F_getCompany
        /\ req[r].call.info.directives = <<>>

(***************************************************************************)
(* Properties of the schema load (under SpecBuild).                        *)
(***************************************************************************)
\* C29: a load over a directory whose text cannot be built raises, out of
\* the constructor (no server, nothing served) or out of gql() (the schema
\* published before stays); what is served was always built from every
\* fragment of the directory, none of them malformed.
C29_BuildFailurePropagates ==
    /\ build_fails(full_schema(fragments.attempt, Fragments)) <=> fragments.result = "raised"
    /\ fragments.constructed =>
           /\ DOMAIN fragments.served = Fragments
           /\ \A f \in Fragments : fragments.served[f] = "ok"
    /\ ~fragments.constructed =>
           /\ fragments.served = NoText
           /\ fragments.result = "raised"
           /\ \A r \in Requests : req[r].pc = "idle"
    /\ fragments.result = "ok" => fragments.served = fragments.attempt

\* gql() has raised over a directory with a malformed fragment while the
\* schema published before is bound to the registry of the earlier call
C29_Witness ==
    /\ fragments.constructed
    /\ fragments.result = "raised"
    /\ \E f \in Fragments : fragments.attempt[f] = "malformed"
    /\ self_resolvers = RegSessions
    /\ bound_with[self_schemas] = RegTypes

(***************************************************************************)
(* Properties of concurrently handled requests (under SpecBlocking).       *)
(***************************************************************************)
\* C28: while a resolver or directive call of one request never returns,
\* every other request being handled is completed: the request for events,
\* once accepted, gets its response.
C28_OthersComplete ==
    (codec_req.pc = "exec") ~> (codec_req.pc = "done")

(***************************************************************************)
(* Properties of the scalar rewriting (under SpecScalars).                 *)
(***************************************************************************)
\* C9: after a schema load with scalar N registered, every type reference
\* whose leaf is named N (object field types, argument types, input-object
\* field types, bare or wrapped) refers to the scalar instance stored in the
\* type table under N.
C9_AllReferencesRewritten ==
    \A t \in {loaded.object_field, loaded.argument, loaded.input_field} :
        Leaf(t) = loaded.type_map[Leaf(t).name]

\* C22: a scalar registration changes no served schema: neither the schema
\* loaded last nor the published schema object or its bindings change in a
\* step that changes the scalar registry, and the loaded schema changes only
\* in a gql() step, to the schema loaded with the registry of that moment; a
\* codec registered after the last gql() is in no served schema.
C22_ScalarTakesEffectOnReload ==
    [][ /\ self_scalars' # self_scalars =>
               /\ loaded' = loaded
               /\ self_schemas' = self_schemas
               /\ heap' = heap
        /\ loaded' # loaded =>
               /\ self_scalars' = self_scalars
               /\ loaded' = load_schema(source, self_scalars) ]_vars

\* Date was registered, loaded by gql(), then registered again with another
\* codec: the served schema still has the first codec
C22_Witness ==
    /\ "Date" \in DOMAIN self_scalars
    /\ self_scalars["Date"] = "URLScalar"
    /\ loaded.type_map["Date"] = Named("Date", "DateScalar")
    /\ source.object_field = List(Named("Date", "parsed"))

(***************************************************************************)
(* Properties of the name translation (under SpecSnake).                   *)
(***************************************************************************)
\* an uppercase letter that follows a lowercase letter or a digit
AfterLowerOrDigit(s, i) ==
    i > 1 /\ IsUpper(s[i]) /\ (IsLower(s[i - 1]) \/ IsDigit(s[i - 1]))

\* the uppercase letter that starts a capitalised word after an acronym run
AfterAcronymRun(s, i) ==
    i > 1 /\ i < Len(s) /\ IsUpper(s[i]) /\ IsUpper(s[i - 1]) /\ IsLower(s[i + 1])

\* a capitalised word after a character that is neither a letter nor a digit
AfterSeparator(s, i) ==
    /\ i > 1 /\ i < Len(s) /\ IsUpper(s[i]) /\ IsLower(s[i + 1])
    /\ ~IsUpper(s[i - 1]) /\ ~IsLower(s[i - 1]) /\ ~IsDigit(s[i - 1])

\* s from position i on, in lowercase, with an underscore before every
\* position of the two stated kinds and, if separators is TRUE, of the third
RECURSIVE SnakeReference(_, _, _)
SnakeReference(s, i, separators) ==
    IF i > Len(s) THEN <<>>
    ELSE (IF \/ AfterLowerOrDigit(s, i)
             \/ AfterAcronymRun(s, i)
             \/ separators /\ AfterSeparator(s, i)
          THEN <<"_", ToLower(s[i])>> ELSE <<ToLower(s[i])>>)
         \o SnakeReference(s, i + 1, separators)

Alphanumeric(s) == \A i \in DOMAIN s : IsUpper(s[i]) \/ IsLower(s[i]) \/ IsDigit(s[i])

\* C10: camel_to_snake returns the name in lowercase with an underscore
\* before each uppercase letter that follows a lowercase letter or a digit and
\* before the uppercase letter that starts a capitalised word after an
\* acronym run (in a name of letters and digits these are the only
\* underscores added; a capitalised word after another character gets one
\* too); getUserByID, firstName, getAllUsers and id give get_user_by_id,
\* first_name, get_all_users and id.
C10_CamelToSnake ==
    snake_out.returned =>
        /\ snake_out.value = SnakeReference(snake_in, 1, TRUE)
        /\ Alphanumeric(snake_in) =>
               snake_out.value = SnakeReference(snake_in, 1, FALSE)
        /\ snake_in = N_getUserByID => snake_out.value = <<"g","e","t","_","u","s","e","r","_","b","y","_","i","d">>
        /\ snake_in = N_firstName => snake_out.value = <<"f","i","r","s","t","_","n","a","m","e">>
        /\ snake_in = N_getAllUsers => snake_out.value = <<"g","e","t","_","a","l","l","_","u","s","e","r","s">>
        /\ snake_in = N_id => snake_out.value = N_id

C10_Witness ==
    /\ snake_out.returned
    /\ snake_in = <<"a", "A", "B", "b">>
    /\ snake_out.value = <<"a", "_", "a", "_", "b", "b">>

====
